---- MODULE Spec2Model ----
(***************************************************************************)
(* Pair scanner, universe base builder, hunt orchestrator and the job      *)
(* gateway of the pairs application (pairs/services/scan.py,               *)
(* pairs/views.py, longshort/services/metrics.py).                         *)
(*                                                                         *)
(* Numbers: a p-value is held in hundredths (5 is p = 0.05), so that the   *)
(* stationarity percentage (1 - p) * 100 is 100 - p.  z-score, beta and    *)
(* half-life are integers.  An optional value (Python None or a number) is *)
(* a sequence of length 0 or 1.                                            *)
(***************************************************************************)
EXTENDS Integers, Sequences, FiniteSets, TLC

\* ------------------------------------------------------------------ bounds

\* Number of windows of the window pool (180, 160, 140, ...).
NWindows == 3
\* Number of active instruments of the universe (ids 1..NAssets).
NAssets == 3
\* Number of decisions hunt_decision may write during one run.
MaxDecisions == 3
\* Number of gate waits (windows without approval followed by another window).
MaxWaits == 2
\* Length of a window list given to _resolve_windows.
MaxListLen == 2

\* Number of Pair.save calls in a behaviour
MaxSaves == 2
\* Number of ten-minute steps the clock of the job gateway makes.
MaxTicks == 4
\* Number of progress events given to the callback of a hunt job.
MaxEvents == 3

\* ------------------------------------------------------- program constants

MIN_SAMPLES == 60
DEFAULT_ADF_MIN == 95
DEFAULT_ZSCORE_ABS_MIN == 2
DEFAULT_HALF_LIFE_MAX == 5
DEFAULT_BASE_WINDOW == 180
\* CACHE_TTL = 60 * 30 seconds, in units of ten minutes.
CACHE_TTL == 3
\* The length the running log is cut to.
LOG_CAP == 500

\* ------------------------------------------------------------ optionals

None == << >>
Some(x) == << x >>
IsNone(v) == v = None
Val(v) == v[1]

Abs(x) == IF x < 0 THEN -x ELSE x
Min(a, b) == IF a < b THEN a ELSE b

\* dict.get(key): the value, or None when the key is absent.
Get(d, k) == IF k \in DOMAIN d THEN d[k] ELSE None

\* Python's `x or default` on an optional number: None and 0 are both falsy.
OrDefault(v, d) == IF IsNone(v) \/ Val(v) = 0 THEN d ELSE Val(v)

\* ------------------------------------------------------------ thresholds

Thresholds(a, z, h) == [adf_min |-> a, zscore_abs_min |-> z, half_life_max |-> h]

ThresholdSamples ==
    { Thresholds(a, z, h) :
        a \in {DEFAULT_ADF_MIN},
        z \in {DEFAULT_ZSCORE_ABS_MIN, DEFAULT_ZSCORE_ABS_MIN + 1},
        h \in {None, Some(DEFAULT_HALF_LIFE_MAX)} }

\* ------------------------------------------------------------ window pool

WindowPool == { 180 - 20 * (i - 1) : i \in 1..NWindows }

\* ------------------------------------------------- quote data of one pair
\* What the price store and the numeric libraries give for one pair and one
\* window: whether the fetch fails, the number of dates both instruments
\* have, and the statistics of the aligned series.

QuoteData(f, n, p, b, z, h, c30, c60) ==
    [fail |-> f, avail |-> n, adf_pvalue |-> p, beta |-> b, zscore |-> z,
     half_life |-> h, corr30 |-> c30, corr60 |-> c60]

PValues == {None, Some(1), Some(5), Some(10)}
ZValues == {None, Some(1), Some(2), Some(-3)}
HLValues == {None, Some(3), Some(8)}
BetaValues == {1, -2}
CorrValues == {None, Some(80)}
AvailValues == {0, MIN_SAMPLES - 1, MIN_SAMPLES, 200}

\* Every combination of the values above: the inputs of one evaluation.
AllQuotes ==
    { QuoteData(FALSE, n, p, b, z, h, c, c) :
        n \in AvailValues, p \in PValues, b \in BetaValues,
        z \in ZValues, h \in HLValues, c \in CorrValues }
    \cup { QuoteData(TRUE, 0, None, 1, None, None, None, None) }

\* The series that pass the default thresholds: two values of each
\* tie-break key.
PassingQuotes ==
    { QuoteData(FALSE, 200, p, b, z, Some(3), None, None) :
        p \in {Some(1), Some(5)}, b \in BetaValues, z \in {Some(2), Some(-3)} }

\* The inputs of a scan over several windows: the passing series, and the
\* series that miss one input or fail one check.
GridQuotes ==
    PassingQuotes
    \cup { QuoteData(FALSE, 200, Some(1), 1, Some(-3), h, None, None) : h \in {None, Some(8)} }
    \cup { QuoteData(FALSE, 200, p, 1, Some(-3), Some(3), None, None) : p \in {None, Some(10)} }
    \cup { QuoteData(FALSE, 200, Some(1), 1, None, Some(3), None, None),
           QuoteData(FALSE, MIN_SAMPLES - 1, Some(1), 1, Some(-3), Some(3), None, None),
           QuoteData(TRUE, 0, None, 1, None, None, None, None) }

\* -------------------------------------------------------- metrics engine

\* The sample floor placed one too low: 59 aligned rows get full metrics.
MetricsFloorOffByOne(q, window) ==
    LET n == Min(q.avail, window) IN
    IF n < MIN_SAMPLES - 1
    THEN [n_samples |-> Some(n)]
    ELSE [adf_pvalue |-> q.adf_pvalue, beta |-> Some(q.beta), zscore |-> q.zscore,
          half_life |-> q.half_life, corr30 |-> q.corr30, corr60 |-> q.corr60,
          n_samples |-> Some(n)]

\* compute_pair_window_metrics: fewer than 60 aligned rows give a record
\* that carries n_samples only.
compute_pair_window_metrics(q, window) ==
    LET n == Min(q.avail, window) IN
    IF n < MIN_SAMPLES
    THEN [n_samples |-> Some(n)]
    ELSE [adf_pvalue |-> q.adf_pvalue, beta |-> Some(q.beta), zscore |-> q.zscore,
          half_life |-> q.half_life, corr30 |-> q.corr30, corr60 |-> q.corr60,
          n_samples |-> Some(n)]

\* (1.0 - adf_pvalue) * 100.0
AdfPct(p) == IF IsNone(p) THEN None ELSE Some(100 - Val(p))

Msg(t, a, b) == [text |-> t, a |-> a, b |-> b]

\* ---------------------------------------------------------- grid scanner

\* The chain without the |z| floor.
RowCheckNoZFloor(metrics, th) ==
    LET samples == Get(metrics, "n_samples")
        adf_pct == AdfPct(Get(metrics, "adf_pvalue"))
        zscore == Get(metrics, "zscore")
    IN  IF ~IsNone(samples) /\ Val(samples) < MIN_SAMPLES
          THEN [status |-> "reprovado", message |-> Msg("Amostra insuficiente (N<60)", 0, 0)]
        ELSE IF IsNone(adf_pct)
          THEN [status |-> "reprovado", message |-> Msg("ADF% indisponivel", 0, 0)]
        ELSE IF Val(adf_pct) < th.adf_min
          THEN [status |-> "reprovado", message |-> Msg("ADF < minimo", Val(adf_pct), th.adf_min)]
        ELSE IF IsNone(zscore)
          THEN [status |-> "reprovado", message |-> Msg("Z-score indisponivel", 0, 0)]
        ELSE IF ~IsNone(th.half_life_max)
          THEN [status |-> "pendente", message |-> Msg("", 0, 0)]
        ELSE [status |-> "ok", message |-> Msg("OK", 0, 0)]

\* The if/elif chain of scan_pair_windows for one window.
RowCheck(metrics, th) ==
    LET samples == Get(metrics, "n_samples")
        adf_pct == AdfPct(Get(metrics, "adf_pvalue"))
        zscore == Get(metrics, "zscore")
        half_life == Get(metrics, "half_life")
    IN  IF ~IsNone(samples) /\ Val(samples) < MIN_SAMPLES
          THEN [status |-> "reprovado", message |-> Msg("Amostra insuficiente (N<60)", 0, 0)]
        ELSE IF IsNone(adf_pct)
          THEN [status |-> "reprovado", message |-> Msg("ADF% indisponivel", 0, 0)]
        ELSE IF Val(adf_pct) < th.adf_min
          THEN [status |-> "reprovado", message |-> Msg("ADF < minimo", Val(adf_pct), th.adf_min)]
        ELSE IF IsNone(zscore)
          THEN [status |-> "reprovado", message |-> Msg("Z-score indisponivel", 0, 0)]
        ELSE IF Abs(Val(zscore)) < th.zscore_abs_min
          THEN [status |-> "reprovado", message |-> Msg("|Z| <", th.zscore_abs_min, 0)]
        ELSE IF ~IsNone(th.half_life_max)
          THEN IF IsNone(half_life)
                 THEN [status |-> "reprovado", message |-> Msg("Half-life indisponivel", 0, 0)]
               ELSE IF Val(half_life) > Val(th.half_life_max)
                 THEN [status |-> "reprovado",
                       message |-> Msg("Half-life > maximo", Val(half_life), Val(th.half_life_max))]
               ELSE [status |-> "pendente", message |-> Msg("", 0, 0)]
        ELSE [status |-> "ok", message |-> Msg("OK", 0, 0)]

WindowRow(window, metrics, status, message) ==
    [window |-> window,
     adf_pct |-> AdfPct(Get(metrics, "adf_pvalue")),
     adf_pvalue |-> Get(metrics, "adf_pvalue"),
     beta |-> Get(metrics, "beta"),
     zscore |-> Get(metrics, "zscore"),
     half_life |-> Get(metrics, "half_life"),
     corr30 |-> Get(metrics, "corr30"),
     corr60 |-> Get(metrics, "corr60"),
     status |-> status,
     message |-> message]

\* One iteration of the loop of scan_pair_windows: the row of one window.
ScanRow(window, q, th) ==
    IF q.fail
    THEN WindowRow(window, << >>, "erro", Msg("erro", 0, 0))
    ELSE LET metrics == compute_pair_window_metrics(q, window)
             c == RowCheck(metrics, th)
         IN  WindowRow(window, metrics, c.status, c.message)

\* The tie-break with the beta comparison turned round.
TieBreakLargerBeta(best, candidate) ==
    IF IsNone(candidate) THEN best
    ELSE IF IsNone(best) THEN candidate
    ELSE LET cand_adf == OrDefault(Val(candidate).adf_pct, -1)
             best_adf == OrDefault(Val(best).adf_pct, -1)
             cand_z == Abs(OrDefault(Val(candidate).zscore, 0))
             best_z == Abs(OrDefault(Val(best).zscore, 0))
             cand_beta == Abs(OrDefault(Val(candidate).beta, 0))
             best_beta == Abs(OrDefault(Val(best).beta, 0))
         IN  IF cand_adf # best_adf
               THEN (IF cand_adf > best_adf THEN candidate ELSE best)
             ELSE IF cand_z # best_z
               THEN (IF cand_z > best_z THEN candidate ELSE best)
             ELSE IF cand_beta > best_beta THEN candidate ELSE best

\* _tie_break: higher ADF%, then higher |Z|, then lower |beta|; best and
\* candidate are optional rows.
tie_break(best, candidate) ==
    IF IsNone(candidate) THEN best
    ELSE IF IsNone(best) THEN candidate
    ELSE LET cand_adf == OrDefault(Val(candidate).adf_pct, -1)
             best_adf == OrDefault(Val(best).adf_pct, -1)
             cand_z == Abs(OrDefault(Val(candidate).zscore, 0))
             best_z == Abs(OrDefault(Val(best).zscore, 0))
             cand_beta == Abs(OrDefault(Val(candidate).beta, 0))
             best_beta == Abs(OrDefault(Val(best).beta, 0))
         IN  IF cand_adf # best_adf
               THEN (IF cand_adf > best_adf THEN candidate ELSE best)
             ELSE IF cand_z # best_z
               THEN (IF cand_z > best_z THEN candidate ELSE best)
             ELSE IF cand_beta < best_beta THEN candidate ELSE best

\* best after the row: only an "ok" row is offered to _tie_break.
BestAfter(best, row) ==
    IF row.status = "ok" THEN tie_break(best, Some(row)) ELSE best

\* -------------------------------------------------- single-window approval

\* The stationarity floor read as a ceiling.
BaseAdfCeiling(q, window, th) ==
    IF q.fail
    THEN [approved |-> FALSE, payload |-> << >>, message |-> Msg("erro", 0, 0)]
    ELSE
    LET metrics == compute_pair_window_metrics(q, window)
        samples == Get(metrics, "n_samples")
        adf_pvalue == Get(metrics, "adf_pvalue")
        adf_pct == AdfPct(adf_pvalue)
        zscore == Get(metrics, "zscore")
        half_life == Get(metrics, "half_life")
        Reject(m) == [approved |-> FALSE, payload |-> << >>, message |-> m]
    IN  IF ~IsNone(samples) /\ Val(samples) < MIN_SAMPLES
          THEN Reject(Msg("Amostra insuficiente (N<60)", 0, 0))
        ELSE IF IsNone(adf_pct)
          THEN Reject(Msg("ADF% indisponivel", 0, 0))
        ELSE IF Val(adf_pct) > th.adf_min
          THEN Reject(Msg("ADF < minimo", Val(adf_pct), th.adf_min))
        ELSE IF IsNone(zscore)
          THEN Reject(Msg("Z-score indisponivel", 0, 0))
        ELSE IF Abs(Val(zscore)) < th.zscore_abs_min
          THEN Reject(Msg("|Z| <", th.zscore_abs_min, 0))
        ELSE IF ~IsNone(th.half_life_max) /\ IsNone(half_life)
          THEN Reject(Msg("Half-life indisponivel", 0, 0))
        ELSE IF ~IsNone(th.half_life_max) /\ Val(half_life) > Val(th.half_life_max)
          THEN Reject(Msg("Half-life > maximo", Val(half_life), Val(th.half_life_max)))
        ELSE [approved |-> TRUE,
              payload |-> [window |-> window, adf_pvalue |-> adf_pvalue, adf_pct |-> adf_pct,
                           beta |-> Get(metrics, "beta"), zscore |-> zscore,
                           half_life |-> half_life, corr30 |-> Get(metrics, "corr30"),
                           corr60 |-> Get(metrics, "corr60"), n_samples |-> samples,
                           status |-> "ok"],
              message |-> Msg("OK", 0, 0)]

\* _compute_base_for_pair: (approved, payload, message).
compute_base_for_pair(q, window, th) ==
    IF q.fail
    THEN [approved |-> FALSE, payload |-> << >>, message |-> Msg("erro", 0, 0)]
    ELSE
    LET metrics == compute_pair_window_metrics(q, window)
        samples == Get(metrics, "n_samples")
        adf_pvalue == Get(metrics, "adf_pvalue")
        adf_pct == AdfPct(adf_pvalue)
        zscore == Get(metrics, "zscore")
        half_life == Get(metrics, "half_life")
        Reject(m) == [approved |-> FALSE, payload |-> << >>, message |-> m]
    IN  IF ~IsNone(samples) /\ Val(samples) < MIN_SAMPLES
          THEN Reject(Msg("Amostra insuficiente (N<60)", 0, 0))
        ELSE IF IsNone(adf_pct)
          THEN Reject(Msg("ADF% indisponivel", 0, 0))
        ELSE IF Val(adf_pct) < th.adf_min
          THEN Reject(Msg("ADF < minimo", Val(adf_pct), th.adf_min))
        ELSE IF IsNone(zscore)
          THEN Reject(Msg("Z-score indisponivel", 0, 0))
        ELSE IF Abs(Val(zscore)) < th.zscore_abs_min
          THEN Reject(Msg("|Z| <", th.zscore_abs_min, 0))
        ELSE IF ~IsNone(th.half_life_max) /\ IsNone(half_life)
          THEN Reject(Msg("Half-life indisponivel", 0, 0))
        ELSE IF ~IsNone(th.half_life_max) /\ Val(half_life) > Val(th.half_life_max)
          THEN Reject(Msg("Half-life > maximo", Val(half_life), Val(th.half_life_max)))
        ELSE [approved |-> TRUE,
              payload |-> [window |-> window, adf_pvalue |-> adf_pvalue, adf_pct |-> adf_pct,
                           beta |-> Get(metrics, "beta"), zscore |-> zscore,
                           half_life |-> half_life, corr30 |-> Get(metrics, "corr30"),
                           corr60 |-> Get(metrics, "corr60"), n_samples |-> samples,
                           status |-> "ok"],
              message |-> Msg("OK", 0, 0)]

\* ------------------------------------------------------- window resolution

Range(s) == { s[i] : i \in 1..Len(s) }

RECURSIVE ResolveLoop(_, _)
ResolveLoop(source, resolved) ==
    IF source = << >> THEN resolved
    ELSE LET num == Head(source) IN
         IF num <= 0 \/ num \in Range(resolved)
         THEN ResolveLoop(Tail(source), resolved)
         ELSE ResolveLoop(Tail(source), Append(resolved, num))

DEFAULT_WINDOWS == << 80, 90, 100, 110, 120, 130, 140, 150, 160, 170, 180 >>

\* _resolve_windows for an explicit list: positive values, no duplicates,
\* order kept, the defaults when nothing is left.
resolve_windows(windows) ==
    LET resolved == ResolveLoop(windows, << >>) IN
    IF resolved = << >> THEN DEFAULT_WINDOWS ELSE resolved

\* ------------------------------------------------------- untyped values
\* A value a caller, the settings or a configuration can hold where a number
\* is expected: an int, a float (in tenths), None, a text that is no number,
\* or the float infinity.

IntValue(n) == [kind |-> "int", v |-> n]
FloatValue(tenths) == [kind |-> "float", v |-> tenths]
NoneValue == [kind |-> "none", v |-> 0]
TextValue == [kind |-> "text", v |-> 0]
InfValue == [kind |-> "inf", v |-> 0]

\* int(value): the int, a float truncated toward zero; None and text raise
\* TypeError / ValueError (no value), infinity raises OverflowError.
IntOf(value) ==
    CASE value.kind = "int" -> Some(value.v)
      [] value.kind = "float" ->
           Some(IF value.v >= 0 THEN value.v \div 10 ELSE 0 - ((0 - value.v) \div 10))
      [] OTHER -> None

\* float(value), in tenths: None and text raise TypeError / ValueError.
FloatOf(value) ==
    CASE value.kind = "int" -> Some(10 * value.v)
      [] value.kind = "float" -> Some(value.v)
      [] OTHER -> None

\* The entries int() converts, converted, in order: the loop passes over an
\* entry whose conversion raises TypeError or ValueError.
RECURSIVE Converted(_)
Converted(source) ==
    IF source = << >> THEN << >>
    ELSE LET num == IntOf(Head(source)) IN
         IF IsNone(num) THEN Converted(Tail(source))
         ELSE << Val(num) >> \o Converted(Tail(source))

\* An OverflowError is not among the exceptions the loop catches.
ResolveRaises(source) == \E i \in 1..Len(source) : source[i].kind = "inf"

Tagged(ints) == [ i \in 1..Len(ints) |-> IntValue(ints[i]) ]

\* _resolve_windows(windows, config): the explicit list, else the list of
\* the configuration, else the defaults; windows and config are optional,
\* config stands for config.windows_list().
resolve_windows_config(windows, config) ==
    LET source == IF ~IsNone(windows) THEN Val(windows)
                  ELSE IF ~IsNone(config) THEN Val(config)
                  ELSE Tagged(DEFAULT_WINDOWS)
        resolved == ResolveLoop(Converted(source), << >>)
    IN  [raised |-> ResolveRaises(source),
         out |-> IF ResolveRaises(source) THEN << >>
                 ELSE IF resolved = << >> THEN DEFAULT_WINDOWS ELSE resolved]

\* The first k windows of the pool, largest first.
Descending(k) == [ i \in 1..k |-> 180 - 20 * (i - 1) ]
Reverse(s) == [ i \in 1..Len(s) |-> s[Len(s) + 1 - i] ]

\* Window lists a caller passes: descending or ascending, 1..NWindows long.
WindowLists ==
    { Descending(k) : k \in 1..NWindows } \cup { Reverse(Descending(k)) : k \in 2..NWindows }

\* ------------------------------------------------------------------ state

VARIABLES
    store,   \* pair store: pair key -> record with the pair's scan_cache_json
    scan,    \* activation of scan_pair_windows
    base,    \* activation of one _compute_base_for_pair call
    market,  \* price store: the series of every combination of instruments
    faulty,  \* the combination whose pair-store calls raise, and which of them
    hunt,    \* activation of hunt_pairs_until_found
    build,   \* activation of build_pairs_base
    raised,  \* the error strings of the exceptions caught so far, in order
    cache,   \* job gateway (django cache) of the hunt job
    job,     \* background worker started by hunt_start, and the decisions written
    gate,    \* activation of wait_for_next_window
    reader,  \* the pair records a concurrent reader of the pair store has seen
    table,   \* the Pair table behind Pair.save, and the outcome of the last save
    conf,    \* activation of get_thresholds or of _resolve_windows
    board    \* the clock of the job gateway, and the last answer of hunt_status

vars ==
    << store, scan, base, market, faulty, hunt, build, raised, cache, job, gate,
       reader, table, conf, board >>

scanVars == << scan, base >>
envVars == << market, faulty >>
huntVars == << hunt, build, raised >>
jobVars == << cache, job, gate >>
sideVars == << reader, table, conf, board >>

\* The instruments, and itertools.combinations(assets, 2) in its order.
Assets == 1..NAssets
ComboSet == { c \in Assets \X Assets : c[1] < c[2] }
ComboLess(c, d) == c[1] < d[1] \/ (c[1] = d[1] /\ c[2] < d[2])
Combos ==
    [ i \in 1..Cardinality(ComboSet) |->
        CHOOSE c \in ComboSet : Cardinality({ d \in ComboSet : ComboLess(d, c) }) = i - 1 ]

\* The pair the scanner and the single evaluation work on.
ThePair == << 1, 2 >>

ScanIdle ==
    [pc |-> "idle", windows |-> << >>, th |-> Thresholds(0, 0, None), i |-> 1,
     rows |-> << >>, best |-> None, seen |-> << >>, sc |-> << >>, result |-> None]

BaseIdle ==
    [pc |-> "idle", seen |-> None, window |-> 0, th |-> Thresholds(0, 0, None), out |-> None]

\* The pairs known before any call: the combinations with instrument 1.
StoreInit == [ k \in { c \in ComboSet : c[1] = 1 } |-> [scan_cache_json |-> << >>] ]

HuntIdle ==
    [pc |-> "idle", source |-> "", seq |-> << >>, wi |-> 0, scanned |-> << >>,
     all_errors |-> << >>, th |-> Thresholds(0, 0, None), approved_ids |-> << >>,
     qs |-> << >>, mem |-> << >>, qi |-> 0, result |-> None]

\* known: the combinations that had a record when build_pairs_base was
\* entered; th: its thresholds.
BuildIdle ==
    [pc |-> "idle", window |-> 0, ci |-> 0, pair |-> None, sc |-> << >>,
     was_created |-> FALSE, created |-> 0, updated |-> 0, approved_ids |-> << >>,
     errors |-> << >>, known |-> {}, th |-> Thresholds(0, 0, None)]

\* status_at, log_at: the time of the last cache.set of the key.
CacheEmpty == [status |-> None, log |-> None, decision |-> None, status_at |-> 0, log_at |-> 0]

\* written: the decisions written, in order; epoch[i]: the number of gate
\* waits begun when decision i was written; inkey: the decision the key holds
\* (0: none).
JobNone == [pc |-> "none", written |-> << >>, epoch |-> << >>, inkey |-> 0]

\* waits: the gate waits begun; choice: the decision the poll read, read: its
\* number in job.written; acted: per finished wait, the decision it acted
\* on; key_at_return: per finished wait, the decision the key held when the
\* wait returned (0: none).
GateIdle ==
    [pc |-> "idle", waits |-> 0, current_window |-> 0, next_window |-> 0,
     payload |-> << >>, choice |-> None, read |-> 0, acted |-> << >>,
     key_at_return |-> << >>, returned |-> << >>]

MarketQuiet == [ c \in ComboSet |-> "short" ]

ScanInit == scan = ScanIdle /\ base = BaseIdle
HuntInit == hunt = HuntIdle /\ build = BuildIdle /\ raised = << >>
JobInit == cache = CacheEmpty /\ job = JobNone /\ gate = GateIdle

\* No Pair row saved yet; last: the outcome of the last Pair.save.
TableEmpty == [rows |-> {}, last |-> None, saves |-> 0]

ConfIdle == [pc |-> "idle"]

\* emitted: the progress events given to the callback, in order.
BoardInit == [now |-> 0, answer |-> None, emitted |-> << >>]

SideInit == reader = {} /\ table = TableEmpty /\ conf = ConfIdle /\ board = BoardInit

\* ----------------------------------------------------- scan_pair_windows

\* Entry of scan_pair_windows: the windows and thresholds are resolved; the
\* pair object carries the scan_cache_json it was loaded with.
ScanCall ==
    /\ scan.pc = "idle"
    /\ base.pc = "idle"
    /\ ThePair \in DOMAIN store
    /\ \E windows \in WindowLists, th \in ThresholdSamples :
         scan' = [ScanIdle EXCEPT !.pc = "loop", !.windows = resolve_windows(windows),
                                  !.th = th, !.sc = store[ThePair].scan_cache_json]
    /\ UNCHANGED << store, base, envVars, sideVars, huntVars, jobVars >>

\* The series a scan meets: every combination when one window is scanned,
\* the grid samples when two or three are, the passing series and the failed
\* fetch when more are.
QuotesFor(windows) ==
    IF Len(windows) = 1 THEN AllQuotes
    ELSE IF Len(windows) <= 3 THEN GridQuotes
    ELSE PassingQuotes \cup { QuoteData(TRUE, 0, None, 1, None, None, None, None) }

\* What one evaluation met: the series, and the metrics record returned for
\* it (None when the computation raised).
Observed(q, window) ==
    [q |-> q,
     metrics |-> IF q.fail THEN None ELSE Some(compute_pair_window_metrics(q, window))]

\* A loop that ends at the first window whose computation raises.
ScanWindowStopsOnError ==
    /\ scan.pc = "loop"
    /\ scan.i <= Len(scan.windows)
    /\ \E q \in QuotesFor(scan.windows) :
         LET row == ScanRow(scan.windows[scan.i], q, scan.th) IN
         scan' = [scan EXCEPT !.rows = Append(@, row),
                              !.best = BestAfter(@, row),
                              !.seen = Append(@, Observed(q, scan.windows[scan.i])),
                              !.i = IF q.fail THEN Len(scan.windows) + 1 ELSE @ + 1]
    /\ UNCHANGED << store, base, envVars, sideVars, huntVars, jobVars >>

\* One iteration of the window loop.
ScanWindow ==
    /\ scan.pc = "loop"
    /\ scan.i <= Len(scan.windows)
    /\ \E q \in QuotesFor(scan.windows) :
         LET row == ScanRow(scan.windows[scan.i], q, scan.th) IN
         scan' = [scan EXCEPT !.rows = Append(@, row),
                              !.best = BestAfter(@, row),
                              !.seen = Append(@, Observed(q, scan.windows[scan.i])),
                              !.i = @ + 1]
    /\ UNCHANGED << store, base, envVars, sideVars, huntVars, jobVars >>

\* One entry of cache_rows: the dict built from a WindowRow.
CacheRow(r) ==
    [window |-> r.window, adf_pct |-> r.adf_pct, adf_pvalue |-> r.adf_pvalue,
     beta |-> r.beta, zscore |-> r.zscore, half_life |-> r.half_life,
     corr30 |-> r.corr30, corr60 |-> r.corr60, status |-> r.status,
     message |-> r.message]

\* {"adf_min": ..., "zscore_abs_min": ..., "half_life_max": ...}
ThresholdsDict(th) ==
    [adf_min |-> th.adf_min, zscore_abs_min |-> th.zscore_abs_min,
     half_life_max |-> th.half_life_max]

\* A payload that keeps the "ok" rows only.
ScanPayloadOkRows(s) ==
    [rows |-> SelectSeq([ i \in 1..Len(s.rows) |-> CacheRow(s.rows[i]) ],
                        LAMBDA r : r.status = "ok"),
     best_window |-> IF IsNone(s.best) THEN None ELSE Some(Val(s.best).window),
     windows |-> s.windows,
     thresholds |-> ThresholdsDict(s.th)]

\* scan_payload: the rows as dicts, the window of the best row, the windows
\* and the thresholds.
ScanPayload(s) ==
    [rows |-> [ i \in 1..Len(s.rows) |-> CacheRow(s.rows[i]) ],
     best_window |-> IF IsNone(s.best) THEN None ELSE Some(Val(s.best).window),
     windows |-> s.windows,
     thresholds |-> ThresholdsDict(s.th)]

\* A fresh dict that holds the one key.
PutAlone(d, k, v) == [ x \in {k} |-> v ]

\* dict[key] = value on a copy of the dict.
Put(d, k, v) == [ x \in DOMAIN d \cup {k} |-> IF x = k THEN v ELSE d[x] ]

\* {**a, **b}: the keys of b over those of a.
Merge(a, b) == [ k \in DOMAIN a \cup DOMAIN b |-> IF k \in DOMAIN b THEN b[k] ELSE a[k] ]

\* After the loop: the payload is merged under "scan" into the pair object's
\* cache, the column is saved, and the result is returned.
ScanPersist ==
    /\ scan.pc = "loop"
    /\ scan.i > Len(scan.windows)
    /\ ThePair \in DOMAIN store
    /\ LET sc == Put(scan.sc, "scan", ScanPayload(scan)) IN
       /\ store' = [store EXCEPT ![ThePair].scan_cache_json = sc]
       /\ scan' = [scan EXCEPT !.pc = "done", !.sc = sc,
                               !.result = Some([rows |-> scan.rows, best |-> scan.best,
                                                windows |-> scan.windows,
                                                thresholds |-> scan.th])]
    /\ UNCHANGED << base, envVars, sideVars, huntVars, jobVars >>

\* ------------------------------------------------- _compute_base_for_pair

\* One call of _compute_base_for_pair on the pair.
BaseEvaluate ==
    /\ base.pc = "idle"
    /\ scan.pc = "idle"
    /\ \E q \in AllQuotes, window \in WindowPool, th \in ThresholdSamples :
         base' = [pc |-> "done", seen |-> Some(Observed(q, window)), window |-> window,
                  th |-> th, out |-> Some(compute_base_for_pair(q, window, th))]
    /\ UNCHANGED << store, scan, envVars, sideVars, huntVars, jobVars >>

\* ---------------------------------------------------------- specification

InitScan ==
    /\ store = StoreInit
    /\ ScanInit
    /\ market = MarketQuiet
    /\ faulty = None
    /\ HuntInit
    /\ JobInit
    /\ SideInit

NextScan ==
    \/ ScanCall
    \/ ScanWindow
    \/ ScanPersist
    \/ BaseEvaluate

SpecScan == InitScan /\ [][NextScan]_vars

\* ------------------------------------------------------------ price store

\* The series of one combination: too short at every window, passing at
\* every window, or passing at the smallest window of the pool only.
ProfileNames == {"short", "always", "late"}

SmallestWindow == 180 - 20 * (NWindows - 1)

GoodQuote == QuoteData(FALSE, 200, Some(1), 1, Some(-3), Some(3), None, None)

QuoteOf(profile, window) ==
    CASE profile = "short" -> [GoodQuote EXCEPT !.avail = MIN_SAMPLES - 1]
      [] profile = "always" -> GoodQuote
      [] profile = "late" ->
           IF window = SmallestWindow THEN GoodQuote
           ELSE [GoodQuote EXCEPT !.adf_pvalue = Some(10)]

\* get_thresholds() without settings, configuration or overrides.
HuntThresholds ==
    Thresholds(DEFAULT_ADF_MIN, DEFAULT_ZSCORE_ABS_MIN, Some(DEFAULT_HALF_LIFE_MAX))

\* Window lists given to a hunt: the pool, largest first or smallest first.
HuntWindowLists == { Descending(NWindows), Reverse(Descending(NWindows)) }

\* f"Pair {left}-{right}: {exc}" / f"Pair {pair.id}: {exc}"
ErrorString(c) == [pair |-> c, exc |-> "DatabaseError"]

\* The calls of the pair store that raise for the faulty combination:
\* "lookup": the query for its record; "write": every write, the creation
\* included; "persist": every write after the creation; "save": the write of
\* the loop body, while the delete of the except clause works.
FaultKinds == {"lookup", "write", "persist", "save"}

Fault(c, at) == Some([pair |-> c, at |-> at])

FaultAt(c) == IF ~IsNone(faulty) /\ Val(faulty).pair = c THEN Val(faulty).at ELSE "none"

\* Pair.objects.filter(left=left, right=right).first() raises.
LookupRaises(c) == FaultAt(c) = "lookup"

\* The save() of a new record raises.
CreateRaises(c) == FaultAt(c) = "write"

\* A save() or delete() of the loop body on this combination's record raises.
WriteRaises(c) == FaultAt(c) \in {"write", "persist", "save"}

\* The delete() of the except clause raises.
RollbackRaises(c) == FaultAt(c) \in {"write", "persist"}

\* The failures a behaviour meets: none, one on the first combination (a
\* known pair), or one on the last (an unknown pair).
Faults ==
    {None}
    \cup { Fault(Combos[1], at) : at \in {"lookup", "write"} }
    \cup { Fault(Combos[Len(Combos)], at) : at \in FaultKinds }

\* ----------------------------------------------------- hunt_pairs_until_found

ValidSources == {"assets", "existing_pairs"}

\* The keyword parameters of hunt_pairs_until_found, and the keywords the
\* worker of hunt_start passes.  A keyword that is no parameter makes the
\* call raise TypeError before the body runs.
HuntParameters ==
    {"windows_desc", "source", "limit_assets", "progress_cb", "thresholds", "metrics_config"}
RunnerKeywords ==
    {"windows_desc", "source", "progress_cb", "metrics_config", "wait_for_next_window"}
DirectKeywords == {"windows_desc", "source"}
CallBinds(keywords) == keywords \subseteq HuntParameters

HuntResult(found, window, approved, errors, scanned) ==
    [found |-> found, window |-> window, approved_ids |-> approved,
     errors |-> errors, scanned_windows |-> scanned]

\* The state of the activation after its preamble (window sequence resolved,
\* accumulators empty); an unknown source returns at once.
HuntEntered(source, windows) ==
    IF source \in ValidSources
    THEN [HuntIdle EXCEPT !.pc = "window", !.source = source,
                          !.seq = resolve_windows(windows), !.wi = 1,
                          !.th = HuntThresholds]
    ELSE [HuntIdle EXCEPT !.pc = "returned", !.source = source,
                          !.seq = resolve_windows(windows),
                          !.result = Some(HuntResult(FALSE, None, << >>,
                                                     << "source invalido" >>, << >>))]

\* The worker's epilogue when the returning activation is the worker's call:
\* the result is published as the job's final record.
Published(c, result) ==
    IF job.pc = "calling"
    THEN [c EXCEPT !.status = Some([state |-> "done", result |-> result]),
                   !.status_at = board.now]
    ELSE c
JobAfterReturn ==
    IF job.pc \in {"calling", "refreshing"} THEN [job EXCEPT !.pc = "finished"] ELSE job

\* The window put in front of the list instead of at its end.
RecordWindowInFront(scanned, window) == << window >> \o scanned

\* scanned.append(window_value)
RecordWindow(scanned, window) == Append(scanned, window)

\* The errors of the last window only.
AccumulateLastOnly(all_errors, errors) == errors

\* all_errors.extend(result["errors"])
Accumulate(all_errors, errors) == all_errors \o errors

\* hunt_pairs_until_found called without a gate (a shell, a command, a test).
HuntCall ==
    /\ hunt.pc = "idle"
    /\ job.pc = "none"
    /\ CallBinds(DirectKeywords)
    /\ \E source \in ValidSources \cup {"other"}, windows \in HuntWindowLists :
         hunt' = HuntEntered(source, windows)
    /\ UNCHANGED << store, scanVars, envVars, sideVars, build, raised, jobVars >>

\* Top of the window loop, source "assets": the window is recorded and
\* build_pairs_base is entered.
HuntAssetsWindow ==
    /\ hunt.pc = "window"
    /\ hunt.source = "assets"
    /\ hunt.wi <= Len(hunt.seq)
    /\ hunt' = [hunt EXCEPT !.pc = "build", !.scanned = RecordWindow(@, hunt.seq[hunt.wi])]
    /\ build' = [BuildIdle EXCEPT !.pc = "lookup", !.window = hunt.seq[hunt.wi], !.ci = 1,
                                  !.known = DOMAIN store, !.th = hunt.th]
    /\ UNCHANGED << store, scanVars, envVars, sideVars, raised, jobVars >>

\* The except clause of a worker that publishes nothing.
FailedUnreported(c, exc) == c

\* An exception leaves hunt_pairs_until_found or build_pairs_base: the
\* worker's except clause publishes the "error" record when the activation
\* is a worker's call.
Failed(c, exc) ==
    IF job.pc \in {"calling", "refreshing"}
    THEN [c EXCEPT !.status = Some([state |-> "error", error |-> exc]),
                   !.status_at = board.now]
    ELSE c

\* The "iter" event build_pairs_base gives its progress_cb for combination
\* number i.
IterEvent(i, window) ==
    [phase |-> "iter", i |-> i, total |-> Len(Combos), left |-> Combos[i][1],
     right |-> Combos[i][2], window |-> window]

\* progress_cb of refresh_start, called by the worker of a refresh job:
\* {"state": "running", **event} becomes the job's record.
RefreshProgress(c, ev) ==
    IF job.pc = "refreshing"
    THEN [c EXCEPT !.status = Some(Merge([state |-> "running"], ev)),
                   !.status_at = board.now]
    ELSE c

\* build_pairs_base, one combination, first half: the "iter" event is
\* reported, the record is looked up and, when unknown, created.  The lookup
\* stands before the try: when it raises, the exception leaves
\* build_pairs_base and its caller.
BuildLookup ==
    /\ build.pc = "lookup"
    /\ build.ci <= Len(Combos)
    /\ LET c == Combos[build.ci]
           reported == RefreshProgress(cache, IterEvent(build.ci, build.window))
       IN
       IF LookupRaises(c)
       THEN /\ build' = [build EXCEPT !.pc = "raised"]
            /\ hunt' = IF hunt.pc = "build" THEN [hunt EXCEPT !.pc = "raised"] ELSE hunt
            /\ cache' = Failed(reported, "DatabaseError")
            /\ job' = JobAfterReturn
            /\ UNCHANGED << store, raised, gate >>
       ELSE IF c \in DOMAIN store
       THEN /\ build' = [build EXCEPT !.pc = "eval", !.pair = Some(c),
                                      !.sc = store[c].scan_cache_json,
                                      !.was_created = FALSE]
            /\ cache' = reported
            /\ UNCHANGED << store, raised, hunt, job, gate >>
       ELSE IF CreateRaises(c)
       THEN /\ build' = [build EXCEPT !.errors = Append(@, ErrorString(c)),
                                      !.ci = @ + 1, !.pair = None]
            /\ raised' = Append(raised, ErrorString(c))
            /\ cache' = reported
            /\ UNCHANGED << store, hunt, job, gate >>
       ELSE /\ store' = Put(store, c, [scan_cache_json |-> << >>])
            /\ build' = [build EXCEPT !.pc = "eval", !.pair = Some(c), !.sc = << >>,
                                      !.was_created = TRUE]
            /\ cache' = reported
            /\ UNCHANGED << raised, hunt, job, gate >>
    /\ UNCHANGED << scanVars, envVars, sideVars >>

Without(f, k) == [ x \in DOMAIN f \ {k} |-> f[x] ]

\* A rejection written with the status of an approval.
RejectedBaseAsOk(window, message) ==
    [window |-> window, status |-> "ok", message |-> message]

\* sc["base"] of a rejected pair that keeps its record.
RejectedBase(window, message) ==
    [window |-> window, status |-> "reprovado", message |-> message]

\* build_pairs_base, one combination, second half: the evaluation, then the
\* approved payload is saved, or the new record is deleted, or the known
\* record gets the rejection.
BuildEvaluate ==
    /\ build.pc = "eval"
    /\ LET c == Val(build.pair)
           out == compute_base_for_pair(QuoteOf(market[c], build.window), build.window, build.th)
           next == [build EXCEPT !.pc = "lookup", !.ci = @ + 1, !.pair = None]
       IN
       IF WriteRaises(c)
       THEN \* save() or delete() raises: the except clause deletes a record
            \* created in this call; a delete that raises too is passed over.
            /\ build' = [next EXCEPT !.errors = Append(@, ErrorString(c))]
            /\ raised' = Append(raised, ErrorString(c))
            /\ store' = IF build.was_created /\ ~RollbackRaises(c)
                        THEN Without(store, c)
                        ELSE store
       ELSE IF out.approved
       THEN /\ store' = Put(store, c, [scan_cache_json |-> Put(build.sc, "base", out.payload)])
            /\ build' = [next EXCEPT !.approved_ids = Append(@, c),
                                     !.created = IF build.was_created THEN @ + 1 ELSE @,
                                     !.updated = IF build.was_created THEN @ ELSE @ + 1]
            /\ UNCHANGED raised
       ELSE IF build.was_created
       THEN /\ store' = Without(store, c)
            /\ build' = next
            /\ UNCHANGED raised
       ELSE /\ store' = Put(store, c,
                  [scan_cache_json |-> Put(build.sc, "base", RejectedBase(build.window, out.message))])
            /\ build' = next
            /\ UNCHANGED raised
    /\ UNCHANGED << scanVars, envVars, sideVars, hunt, jobVars >>

\* build_pairs_base returns and the hunt looks at its result: the errors are
\* accumulated; with an approval the hunt returns, otherwise the loop goes on.
BuildReturn ==
    /\ build.pc = "lookup"
    /\ build.ci > Len(Combos)
    /\ hunt.pc = "build"
    /\ LET errors == Accumulate(hunt.all_errors, build.errors)
           window == hunt.seq[hunt.wi]
           result == HuntResult(TRUE, Some(window), build.approved_ids, errors, hunt.scanned)
       IN
       IF build.approved_ids # << >>
       THEN /\ hunt' = [hunt EXCEPT !.pc = "returned", !.all_errors = errors,
                                    !.result = Some(result)]
            /\ cache' = Published(cache, result)
            /\ job' = JobAfterReturn
            /\ UNCHANGED gate
       ELSE /\ hunt' = [hunt EXCEPT !.pc = "window", !.all_errors = errors, !.wi = @ + 1]
            /\ UNCHANGED jobVars
    /\ build' = [build EXCEPT !.pc = "idle"]
    /\ UNCHANGED << store, scanVars, envVars, sideVars, raised >>

\* Pair.objects.all().order_by("id"): the keys in order.
RECURSIVE SortedKeys(_)
SortedKeys(S) ==
    IF S = {} THEN << >>
    ELSE LET m == CHOOSE c \in S : \A d \in S : d = c \/ ComboLess(c, d)
         IN  << m >> \o SortedKeys(S \ {m})

\* Top of the window loop, source "existing_pairs": the window is recorded
\* and approved_ids cleared; the first pass over the queryset loads the
\* records, which later passes reuse.
HuntExistingWindow ==
    /\ hunt.pc = "window"
    /\ hunt.source = "existing_pairs"
    /\ hunt.wi <= Len(hunt.seq)
    /\ hunt' = [hunt EXCEPT !.pc = "pairs", !.scanned = RecordWindow(@, hunt.seq[hunt.wi]),
                            !.approved_ids = << >>, !.qi = 1,
                            !.qs = IF hunt.wi = 1 THEN SortedKeys(DOMAIN store) ELSE @,
                            !.mem = IF hunt.wi = 1
                                    THEN [ c \in DOMAIN store |-> store[c].scan_cache_json ]
                                    ELSE @]
    /\ UNCHANGED << store, scanVars, envVars, sideVars, build, raised, jobVars >>

\* A rejected pair loses its record, as a new candidate of build_pairs_base
\* does.
HuntExistingPairDropsRejected ==
    /\ hunt.pc = "pairs"
    /\ hunt.qi <= Len(hunt.qs)
    /\ LET c == hunt.qs[hunt.qi]
           window == hunt.seq[hunt.wi]
           out == compute_base_for_pair(QuoteOf(market[c], window), window, hunt.th)
           sc == Put(hunt.mem[c], "base",
                     IF out.approved THEN out.payload ELSE RejectedBase(window, out.message))
           next == [hunt EXCEPT !.qi = @ + 1, !.mem = [@ EXCEPT ![c] = sc]]
       IN
       IF WriteRaises(c) \/ c \notin DOMAIN store
       THEN /\ hunt' = [next EXCEPT !.all_errors = Append(@, ErrorString(c))]
            /\ raised' = Append(raised, ErrorString(c))
            /\ UNCHANGED store
       ELSE /\ store' = IF out.approved
                        THEN [store EXCEPT ![c].scan_cache_json = sc]
                        ELSE Without(store, c)
            /\ hunt' = IF out.approved
                       THEN [next EXCEPT !.approved_ids = Append(@, c)]
                       ELSE next
            /\ UNCHANGED raised
    /\ UNCHANGED << scanVars, envVars, sideVars, build, jobVars >>

\* One known pair at the current window: evaluated, and the approval or the
\* rejection saved under "base".
HuntExistingPair ==
    /\ hunt.pc = "pairs"
    /\ hunt.qi <= Len(hunt.qs)
    /\ LET c == hunt.qs[hunt.qi]
           window == hunt.seq[hunt.wi]
           out == compute_base_for_pair(QuoteOf(market[c], window), window, hunt.th)
           sc == Put(hunt.mem[c], "base",
                     IF out.approved THEN out.payload ELSE RejectedBase(window, out.message))
           next == [hunt EXCEPT !.qi = @ + 1, !.mem = [@ EXCEPT ![c] = sc]]
       IN
       IF WriteRaises(c) \/ c \notin DOMAIN store
       THEN /\ hunt' = [next EXCEPT !.all_errors = Append(@, ErrorString(c))]
            /\ raised' = Append(raised, ErrorString(c))
            /\ UNCHANGED store
       ELSE /\ store' = [store EXCEPT ![c].scan_cache_json = sc]
            /\ hunt' = IF out.approved
                       THEN [next EXCEPT !.approved_ids = Append(@, c)]
                       ELSE next
            /\ UNCHANGED raised
    /\ UNCHANGED << scanVars, envVars, sideVars, build, jobVars >>

\* After the pairs of one window: with an approval the hunt returns,
\* otherwise the loop goes on.
HuntExistingWindowEnd ==
    /\ hunt.pc = "pairs"
    /\ hunt.qi > Len(hunt.qs)
    /\ LET window == hunt.seq[hunt.wi]
           result == HuntResult(TRUE, Some(window), hunt.approved_ids, hunt.all_errors,
                                hunt.scanned)
       IN
       IF hunt.approved_ids # << >>
       THEN /\ hunt' = [hunt EXCEPT !.pc = "returned", !.result = Some(result)]
            /\ cache' = Published(cache, result)
            /\ job' = JobAfterReturn
            /\ UNCHANGED gate
       ELSE /\ hunt' = [hunt EXCEPT !.pc = "window", !.wi = @ + 1]
            /\ UNCHANGED jobVars
    /\ UNCHANGED << store, scanVars, envVars, sideVars, build, raised >>

\* The window loop ran out: the not-found result.
HuntExhausted ==
    /\ hunt.pc = "window"
    /\ hunt.wi > Len(hunt.seq)
    /\ LET result == HuntResult(FALSE, None, << >>, hunt.all_errors, hunt.scanned) IN
       /\ hunt' = [hunt EXCEPT !.pc = "returned", !.result = Some(result)]
       /\ cache' = Published(cache, result)
       /\ job' = JobAfterReturn
       /\ UNCHANGED gate
    /\ UNCHANGED << store, scanVars, envVars, sideVars, build, raised >>

\* ------------------------------------------------------------- hunt job

\* A key set at time `at` with CACHE_TTL is gone once the time-to-live has
\* passed.
Expired(at, now) == at + CACHE_TTL <= now

\* cache.get(f"hunt:{job_id}") and cache.get(f"hunt:log:{job_id}") at time
\* now: None for a key never set or expired.
StatusGet(c, now) == IF Expired(c.status_at, now) THEN None ELSE c.status
LogGet(c, now) == IF Expired(c.log_at, now) THEN None ELSE c.log

\* A status query that reads the stored record whatever its age.
StatusNeverExpires(c, now) ==
    [data |-> IF IsNone(c.status) THEN [state |-> "unknown"] ELSE Val(c.status),
     log_rows |-> IF IsNone(LogGet(c, now)) THEN << >> ELSE Val(LogGet(c, now))]

\* hunt_status: cache.get(...) or {"state": "unknown"}, and the log rows
\* or [].
hunt_status(c, now) ==
    [data |-> IF IsNone(StatusGet(c, now)) THEN [state |-> "unknown"]
              ELSE Val(StatusGet(c, now)),
     log_rows |-> IF IsNone(LogGet(c, now)) THEN << >> ELSE Val(LogGet(c, now))]

\* POST hunt_start: the job's records are created and the worker started.
HuntStart ==
    /\ job.pc = "none"
    /\ hunt.pc = "idle"
    /\ cache' = [cache EXCEPT !.status = Some([state |-> "starting"]),
                               !.status_at = board.now,
                               !.log = Some(<< >>), !.log_at = board.now]
    /\ job' = [job EXCEPT !.pc = "spawned"]
    /\ UNCHANGED << store, scanVars, envVars, sideVars, huntVars, gate >>

\* The windows of the worker's hunt (windows_desc=None): the configured
\* windows, largest first.
JobWindows == Descending(NWindows)

\* The worker: it calls hunt_pairs_until_found with its keywords; a call
\* that raises is answered by the except clause with the "error" record.
RunnerRun ==
    /\ job.pc = "spawned"
    /\ IF CallBinds(RunnerKeywords)
       THEN /\ hunt' = HuntEntered("assets", JobWindows)
            /\ job' = [job EXCEPT !.pc = "calling"]
            /\ UNCHANGED cache
       ELSE /\ cache' = [cache EXCEPT !.status = Some([state |-> "error", error |-> "TypeError"]),
                                       !.status_at = board.now]
            /\ job' = [job EXCEPT !.pc = "finished"]
            /\ UNCHANGED hunt
    /\ UNCHANGED << store, scanVars, envVars, sideVars, build, raised, gate >>

Decisions == {"continue", "cancel"}

\* POST hunt_decision: the decision is written under the job's key.
HuntDecision ==
    /\ job.pc # "none"
    /\ Len(job.written) < MaxDecisions
    /\ \E action \in Decisions :
         /\ cache' = [cache EXCEPT !.decision = Some(action)]
         /\ job' = [job EXCEPT !.written = Append(@, action),
                                !.epoch = Append(@, gate.waits),
                                !.inkey = Len(job.written) + 1]
    /\ UNCHANGED << store, scanVars, envVars, sideVars, huntVars, gate >>

\* The events build_pairs_base and hunt_pairs_until_found give their
\* progress_cb at one window: one "iter" per combination, "window_start",
\* and the "done" events of the two functions.
ProgressEvents ==
    { [phase |-> "iter", i |-> i, total |-> Len(Combos), left |-> Combos[i][1],
       right |-> Combos[i][2], window |-> 180] : i \in 1..Len(Combos) }
    \cup { [phase |-> "window_start", window |-> 180],
           [phase |-> "done", i |-> Len(Combos), total |-> Len(Combos), window |-> 180],
           [phase |-> "done", window |-> None, approved |-> 0] }

\* The row progress_cb appends to the log for an event.
LogRow(ev) ==
    [pair_label |-> Get(ev, "pair_label"), status |-> Get(ev, "status"),
     message |-> Get(ev, "message"), window |-> Get(ev, "window"),
     approved |-> Get(ev, "approved"), i |-> Get(ev, "i"), total |-> Get(ev, "total"),
     compute_ms |-> IF "compute_ms" \in DOMAIN ev THEN ev["compute_ms"] ELSE 0]

\* rows[-500:]
LastRows(rows) ==
    IF Len(rows) > LOG_CAP THEN SubSeq(rows, Len(rows) - LOG_CAP + 1, Len(rows)) ELSE rows

\* progress_cb of hunt_start at time now: the event becomes the status
\* record, and an event of phase "pair" is appended to the log, which is cut
\* to its last LOG_CAP rows.
progress_cb(c, ev, now) ==
    LET state == IF "state" \in DOMAIN ev /\ ev["state"] # "" THEN ev["state"] ELSE "running"
        payload == Without(ev, "state")
        published == [c EXCEPT !.status = Some(Merge([state |-> state], payload)),
                               !.status_at = now]
        rows == IF IsNone(LogGet(c, now)) THEN << >> ELSE Val(LogGet(c, now))
    IN  IF "phase" \in DOMAIN ev /\ ev["phase"] = "pair"
        THEN [published EXCEPT !.log = Some(LastRows(Append(rows, LogRow(ev)))),
                               !.log_at = now]
        ELSE published

\* The running hunt gives the callback of its job an event.
ProgressCb ==
    /\ job.pc = "spawned"
    /\ Len(board.emitted) < MaxEvents
    /\ \E ev \in ProgressEvents :
          /\ cache' = progress_cb(cache, ev, board.now)
          /\ board' = [board EXCEPT !.emitted = Append(@, ev)]
    /\ UNCHANGED << store, scanVars, envVars, huntVars, job, gate, reader, table, conf >>

InitProgress ==
    /\ store = StoreInit
    /\ ScanInit
    /\ market = MarketQuiet
    /\ faulty = None
    /\ HuntInit
    /\ JobInit
    /\ SideInit

NextProgress ==
    \/ HuntStart
    \/ ProgressCb

SpecProgress == InitProgress /\ [][NextProgress]_vars

\* GET hunt_status at the current time.
HuntStatus ==
    /\ board' = [board EXCEPT !.answer =
                    Some([at |-> board.now, view |-> hunt_status(cache, board.now)])]
    /\ UNCHANGED << store, scanVars, envVars, huntVars, jobVars, reader, table, conf >>

\* Ten minutes pass.
Tick ==
    /\ board.now < MaxTicks
    /\ board' = [board EXCEPT !.now = @ + 1]
    /\ UNCHANGED << store, scanVars, envVars, huntVars, jobVars, reader, table, conf >>

InitStatus ==
    /\ store = StoreInit
    /\ ScanInit
    /\ market = MarketQuiet
    /\ faulty = None
    /\ HuntInit
    /\ JobInit
    /\ SideInit

NextStatus ==
    \/ HuntStart
    \/ RunnerRun
    \/ HuntStatus
    \/ Tick

SpecStatus == InitStatus /\ [][NextStatus]_vars

\* ------------------------------------------------- wait_for_next_window

\* The orchestrator reaches the end of a window that approved nothing, with
\* a further window to go, and calls the gate.
GateCall ==
    /\ job.pc = "calling"
    /\ gate.pc \in {"idle", "returned"}
    /\ IF gate.returned = << >> THEN TRUE ELSE gate.returned[Len(gate.returned)]
    /\ gate.waits < MaxWaits
    /\ gate.waits + 1 < Len(JobWindows)
    /\ gate' = [gate EXCEPT !.pc = "enter", !.waits = @ + 1,
                            !.current_window = JobWindows[gate.waits + 1],
                            !.next_window = JobWindows[gate.waits + 2],
                            !.choice = None, !.read = 0]
    /\ UNCHANGED << store, scanVars, envVars, sideVars, huntVars, cache, job >>

\* An entry that leaves the decision key as it found it.
KeepOnEntry(c) == c

\* The first statement deletes the decision key without reading it.
DeleteOnEntry(c) == [c EXCEPT !.decision = None]

\* Entry of the wait: cache.delete(decision_key).
GateEnter ==
    /\ gate.pc = "enter"
    /\ cache' = DeleteOnEntry(cache)
    /\ job' = [job EXCEPT !.inkey = IF IsNone(cache'.decision) THEN 0 ELSE @]
    /\ gate' = [gate EXCEPT !.pc = "publish"]
    /\ UNCHANGED << store, scanVars, envVars, sideVars, huntVars >>

\* The "waiting" record is laid over the current status record.
GatePublishWaiting ==
    /\ gate.pc = "publish"
    /\ LET current_status == IF IsNone(StatusGet(cache, board.now)) THEN << >>
                             ELSE Val(StatusGet(cache, board.now))
           waiting_payload ==
              Merge(current_status,
                    [state |-> "waiting", phase |-> "window_next",
                     window |-> gate.current_window, next_window |-> gate.next_window,
                     approved |-> 0,
                     scanned_windows |-> SubSeq(JobWindows, 1, gate.waits)])
       IN  /\ cache' = [cache EXCEPT !.status = Some(waiting_payload),
                                      !.status_at = board.now]
           /\ gate' = [gate EXCEPT !.pc = "poll", !.payload = waiting_payload]
    /\ UNCHANGED << store, scanVars, envVars, sideVars, huntVars, job >>

\* A poll that ends the wait on "continue" only.
GatePollContinueOnly ==
    /\ gate.pc = "poll"
    /\ gate' = IF cache.decision = Some("continue")
               THEN [gate EXCEPT !.pc = "consume", !.choice = cache.decision,
                                 !.read = job.inkey]
               ELSE gate
    /\ UNCHANGED << store, scanVars, envVars, sideVars, huntVars, cache, job >>

\* One poll: choice = cache.get(decision_key); without a decision the wait
\* sleeps and polls again.
GatePoll ==
    /\ gate.pc = "poll"
    /\ gate' = IF cache.decision \in {Some("continue"), Some("cancel")}
               THEN [gate EXCEPT !.pc = "consume", !.choice = cache.decision,
                                 !.read = job.inkey]
               ELSE gate
    /\ UNCHANGED << store, scanVars, envVars, sideVars, huntVars, cache, job >>

\* The decision read is consumed: cache.delete(decision_key).
GateConsume ==
    /\ gate.pc = "consume"
    /\ cache' = [cache EXCEPT !.decision = None]
    /\ job' = [job EXCEPT !.inkey = 0]
    /\ gate' = [gate EXCEPT !.pc = "finish"]
    /\ UNCHANGED << store, scanVars, envVars, sideVars, huntVars >>

\* The wait returns: True after publishing "running" for the next window
\* ("continue"), False ("cancel").
GateReturn ==
    /\ gate.pc = "finish"
    /\ cache' = IF gate.choice = Some("continue")
                THEN [cache EXCEPT !.status =
                        Some(Merge(gate.payload,
                                   [state |-> "running", phase |-> "window_continue",
                                    window |-> gate.next_window])),
                                   !.status_at = board.now]
                ELSE cache
    /\ gate' = [gate EXCEPT !.pc = "returned",
                            !.acted = Append(@, gate.read),
                            !.key_at_return = Append(@, job.inkey),
                            !.returned = Append(@, gate.choice = Some("continue"))]
    /\ UNCHANGED << store, scanVars, envVars, sideVars, huntVars, job >>

InitGate ==
    /\ store = StoreInit
    /\ ScanInit
    /\ market = MarketQuiet
    /\ faulty = None
    /\ HuntInit
    /\ cache = [CacheEmpty EXCEPT !.status = Some([state |-> "running"]), !.log = Some(<< >>)]
    /\ job = [JobNone EXCEPT !.pc = "calling"]
    /\ gate = GateIdle
    /\ SideInit

NextGate ==
    \/ GateCall
    \/ GateEnter
    \/ GatePublishWaiting
    \/ GatePoll
    \/ GateConsume
    \/ GateReturn
    \/ HuntDecision

SpecGate == InitGate /\ [][NextGate]_vars

\* The steps of the worker thread inside the wait.  The thread is scheduled
\* again and again: time.sleep(0.5) returns and the loop polls.
GateWorker ==
    \/ GateEnter
    \/ GatePublishWaiting
    \/ GatePoll
    \/ GateConsume
    \/ GateReturn

SpecGateLive == InitGate /\ [][NextGate]_vars /\ WF_vars(GateWorker)

\* ------------------------------------------------------ sequences of calls

\* best after the first k rows of the loop.
RECURSIVE BestOf(_, _)
BestOf(rows, k) == IF k = 0 THEN None ELSE BestAfter(BestOf(rows, k - 1), rows[k])

\* Thresholds a scan of the stored pair is called with: the defaults, or
\* the defaults without a half-life ceiling.
StoredScanThresholds ==
    { HuntThresholds, Thresholds(DEFAULT_ADF_MIN, DEFAULT_ZSCORE_ABS_MIN, None) }

\* A whole call of scan_pair_windows on the stored pair, between two hunts:
\* the record is loaded, every window is evaluated on the series of the
\* price store, and the payload is saved under "scan".
ScanStoredPair ==
    /\ hunt.pc \in {"idle", "returned"}
    /\ build.pc = "idle"
    /\ ThePair \in DOMAIN store
    /\ \E windows \in HuntWindowLists, th \in StoredScanThresholds :
         LET resolved == resolve_windows(windows)
             quote(i) == QuoteOf(market[ThePair], resolved[i])
             rows == [ i \in 1..Len(resolved) |-> ScanRow(resolved[i], quote(i), th) ]
             done == [ScanIdle EXCEPT !.pc = "done", !.windows = resolved, !.th = th,
                                      !.i = Len(resolved) + 1, !.rows = rows,
                                      !.best = BestOf(rows, Len(rows)),
                                      !.seen = [ i \in 1..Len(resolved) |->
                                                   Observed(quote(i), resolved[i]) ]]
             sc == Put(store[ThePair].scan_cache_json, "scan", ScanPayload(done))
         IN  /\ store' = [store EXCEPT ![ThePair].scan_cache_json = sc]
             /\ scan' = [done EXCEPT !.sc = sc,
                                     !.result = Some([rows |-> rows, best |-> done.best,
                                                      windows |-> resolved,
                                                      thresholds |-> th])]
    /\ UNCHANGED << base, envVars, sideVars, huntVars, jobVars >>

\* The caller has the result of a hunt; the next call starts with fresh
\* locals.
HuntAgain ==
    /\ hunt.pc = "returned"
    /\ job.pc = "none"
    /\ hunt' = HuntIdle
    /\ build' = BuildIdle
    /\ raised' = << >>
    /\ UNCHANGED << store, scanVars, envVars, sideVars, jobVars >>

\* The price stores of a sequence of calls: the first combination (the
\* stored pair) and the last (an unknown pair) have any series, the others
\* a short one.
StoredMarkets ==
    { m \in [ComboSet -> ProfileNames] :
        \A c \in ComboSet : c \notin {Combos[1], Combos[Len(Combos)]} => m[c] = "short" }

InitStore ==
    /\ store = StoreInit
    /\ ScanInit
    /\ market \in StoredMarkets
    /\ faulty = None
    /\ HuntInit
    /\ JobInit
    /\ SideInit

NextStore ==
    \/ ScanStoredPair
    \/ HuntCall
    \/ HuntAssetsWindow
    \/ BuildLookup
    \/ BuildEvaluate
    \/ BuildReturn
    \/ HuntExistingWindow
    \/ HuntExistingPair
    \/ HuntExistingWindowEnd
    \/ HuntExhausted
    \/ HuntAgain

SpecStore == InitStore /\ [][NextStore]_vars

\* ----------------------------------------------------------------- refresh job

\* POST refresh_start: the job's record is created and the worker started.
RefreshStart ==
    /\ job.pc = "none"
    /\ hunt.pc = "idle"
    /\ build.pc = "idle"
    /\ cache' = [cache EXCEPT !.status = Some([state |-> "starting"]),
                               !.status_at = board.now]
    /\ job' = [job EXCEPT !.pc = "refresh_spawned"]
    /\ UNCHANGED << store, scanVars, envVars, sideVars, huntVars, gate >>

\* The worker of a refresh job enters build_pairs_base at the base window,
\* with the thresholds of get_thresholds.
RefreshRun ==
    /\ job.pc = "refresh_spawned"
    /\ build' = [BuildIdle EXCEPT !.pc = "lookup", !.window = DEFAULT_BASE_WINDOW, !.ci = 1,
                                  !.known = DOMAIN store, !.th = HuntThresholds]
    /\ job' = [job EXCEPT !.pc = "refreshing"]
    /\ UNCHANGED << store, scanVars, envVars, sideVars, hunt, raised, cache, gate >>

\* build_pairs_base reports its "done" event and returns to the worker of
\* the refresh job, which publishes the final record with the counts.
RefreshReturn ==
    /\ job.pc = "refreshing"
    /\ build.pc = "lookup"
    /\ build.ci > Len(Combos)
    /\ LET reported ==
             RefreshProgress(cache, [phase |-> "done", i |-> Len(Combos),
                                     total |-> Len(Combos), window |-> build.window])
       IN  cache' = [reported EXCEPT !.status = Some([state |-> "done",
                                                      ok |-> Len(build.approved_ids),
                                                      errs |-> Len(build.errors)]),
                                     !.status_at = board.now]
    /\ job' = [job EXCEPT !.pc = "finished"]
    /\ build' = [build EXCEPT !.pc = "idle"]
    /\ UNCHANGED << store, scanVars, envVars, sideVars, hunt, raised, gate >>

\* A refresh job or a hunt job is started, and its worker runs to its end.
InitJobs ==
    /\ store = StoreInit
    /\ ScanInit
    /\ market \in StoredMarkets
    /\ faulty \in Faults
    /\ HuntInit
    /\ JobInit
    /\ SideInit

NextJobs ==
    \/ HuntStart
    \/ RunnerRun
    \/ RefreshStart
    \/ RefreshRun
    \/ BuildLookup
    \/ BuildEvaluate
    \/ RefreshReturn

\* The steps of a worker thread: a started thread runs on.
JobWorker == RunnerRun \/ RefreshRun \/ BuildLookup \/ BuildEvaluate \/ RefreshReturn

SpecJobs == InitJobs /\ [][NextJobs]_vars /\ WF_vars(JobWorker)

\* ----------------------------------------------------- concurrent scanner

\* The request thread of scan_windows loads the pair
\* (get_object_or_404): the object carries the scan_cache_json of that
\* moment.
ScanWindowsLoad ==
    /\ scan.pc = "idle"
    /\ ThePair \in DOMAIN store
    /\ scan' = [ScanIdle EXCEPT !.pc = "loaded", !.sc = store[ThePair].scan_cache_json]
    /\ UNCHANGED << store, base, envVars, sideVars, huntVars, jobVars >>

\* The request thread runs scan_pair_windows on the loaded object: every
\* window is evaluated and the payload is put under "scan" into the
\* object's dict, which is saved as the column.
ScanWindowsScan ==
    /\ scan.pc = "loaded"
    /\ ThePair \in DOMAIN store
    /\ \E windows \in HuntWindowLists, th \in StoredScanThresholds :
         LET resolved == resolve_windows(windows)
             quote(i) == QuoteOf(market[ThePair], resolved[i])
             rows == [ i \in 1..Len(resolved) |-> ScanRow(resolved[i], quote(i), th) ]
             done == [ScanIdle EXCEPT !.pc = "done", !.windows = resolved, !.th = th,
                                      !.i = Len(resolved) + 1, !.rows = rows,
                                      !.best = BestOf(rows, Len(rows)),
                                      !.seen = [ i \in 1..Len(resolved) |->
                                                   Observed(quote(i), resolved[i]) ]]
             sc == Put(scan.sc, "scan", ScanPayload(done))
         IN  /\ store' = [store EXCEPT ![ThePair].scan_cache_json = sc]
             /\ scan' = [done EXCEPT !.sc = sc,
                                     !.result = Some([rows |-> rows, best |-> done.best,
                                                      windows |-> resolved,
                                                      thresholds |-> th])]
    /\ UNCHANGED << base, envVars, sideVars, huntVars, jobVars >>

InitRace ==
    /\ store = StoreInit
    /\ ScanInit
    /\ market \in StoredMarkets
    /\ faulty = None
    /\ HuntInit
    /\ JobInit
    /\ SideInit

NextRace ==
    \/ ScanWindowsLoad
    \/ ScanWindowsScan
    \/ HuntCall
    \/ HuntAssetsWindow
    \/ BuildLookup
    \/ BuildEvaluate
    \/ BuildReturn
    \/ HuntExistingWindow
    \/ HuntExistingPair
    \/ HuntExistingWindowEnd
    \/ HuntExhausted

SpecRace == InitRace /\ [][NextRace]_vars

\* ------------------------------------------------------ concurrent reader

\* A request running beside the scan looks a pair up
\* (Pair.objects.get(left=left, right=right)) and finds its record.
ReadPair ==
    /\ \E c \in DOMAIN store :
          /\ c \notin reader
          /\ reader' = reader \cup {c}
    /\ UNCHANGED << store, scanVars, envVars, huntVars, jobVars, table, conf, board >>

InitReader ==
    /\ store = StoreInit
    /\ ScanInit
    /\ market \in [ComboSet -> ProfileNames]
    /\ faulty = None
    /\ HuntInit
    /\ JobInit
    /\ SideInit

NextReader ==
    \/ HuntCall
    \/ HuntAssetsWindow
    \/ BuildLookup
    \/ BuildEvaluate
    \/ BuildReturn
    \/ HuntExhausted
    \/ ReadPair

SpecReader == InitReader /\ [][NextReader]_vars

\* ------------------------------------------------------------ configuration

ThresholdKeys == {"adf_min", "zscore_abs_min", "half_life_max"}

\* dict.update(other) where other may be empty.
Update(data, other) == IF DOMAIN other = {} THEN data ELSE Merge(data, other)

\* The attributes of the configuration that are not None.
ConfigPart(config) ==
    IF IsNone(config) THEN << >>
    ELSE [ k \in { key \in ThresholdKeys : Val(config)[key].kind # "none" } |-> Val(config)[k] ]

\* get_thresholds(overrides, config=config) under the setting
\* PAIRS_THRESHOLDS = cfg (None: absent or no dict).  The thresholds are
\* whole numbers here, given as ints.
get_thresholds(cfg, config, overrides) ==
    LET fromSettings == IF IsNone(cfg) THEN << >> ELSE Val(cfg)
        withConfig == Update(fromSettings, ConfigPart(config))
        data == IF IsNone(overrides) THEN withConfig ELSE Update(withConfig, Val(overrides))
        converts(key) == key \in DOMAIN data /\ ~IsNone(FloatOf(data[key]))
        cleaned == [ k \in { key \in ThresholdKeys : converts(key) } |->
                       Val(FloatOf(data[k])) \div 10 ]
    IN  Thresholds(
          IF "adf_min" \in DOMAIN cleaned THEN cleaned["adf_min"] ELSE DEFAULT_ADF_MIN,
          IF "zscore_abs_min" \in DOMAIN cleaned THEN cleaned["zscore_abs_min"]
          ELSE DEFAULT_ZSCORE_ABS_MIN,
          IF "half_life_max" \in DOMAIN cleaned
          THEN (IF cleaned["half_life_max"] <= 0 THEN None ELSE Some(cleaned["half_life_max"]))
          ELSE Some(DEFAULT_HALF_LIFE_MAX))

\* The values a source gives a key.
ThresholdValues(key) ==
    CASE key = "adf_min" -> {IntValue(90), IntValue(92)}
      [] key = "zscore_abs_min" -> {IntValue(3)}
      [] key = "half_life_max" -> {IntValue(8), IntValue(0), NoneValue, TextValue}

\* The dicts of the setting and of the overrides: any keys, any values.
SourceDicts ==
    UNION { { d \in [K -> UNION { ThresholdValues(k) : k \in K }] :
                \A k \in K : d[k] \in ThresholdValues(k) } :
            K \in SUBSET ThresholdKeys }

\* The per-user configurations: every attribute a number or None.
ConfigObjects ==
    { [adf_min |-> a, zscore_abs_min |-> z, half_life_max |-> h] :
        a \in {NoneValue, IntValue(90), IntValue(92)},
        z \in {NoneValue, IntValue(3)},
        h \in {NoneValue, IntValue(8), IntValue(0)} }

Optional(S) == {None} \cup { Some(x) : x \in S }

\* One call of get_thresholds.
GetThresholdsCall ==
    /\ conf.pc = "idle"
    /\ \E cfg \in Optional(SourceDicts), config \in Optional(ConfigObjects),
          overrides \in Optional(SourceDicts) :
          conf' = [pc |-> "thresholds", cfg |-> cfg, config |-> config,
                   overrides |-> overrides,
                   out |-> get_thresholds(cfg, config, overrides)]
    /\ UNCHANGED << store, scanVars, envVars, huntVars, jobVars, reader, table, board >>

\* The entries of a window list.
RawWindows ==
    { IntValue(180), IntValue(160), IntValue(0), IntValue(-5), FloatValue(25),
      NoneValue, TextValue, InfValue }

RawLists == UNION { [1..n -> RawWindows] : n \in 0..MaxListLen }

\* What config.windows_list() returns.
ConfigLists == { << >>, << IntValue(140) >>, << IntValue(0), IntValue(140), IntValue(140) >> }

\* One call of _resolve_windows.
ResolveWindowsCall ==
    /\ conf.pc = "idle"
    /\ \E windows \in Optional(RawLists), config \in Optional(ConfigLists) :
          LET r == resolve_windows_config(windows, config) IN
          conf' = [pc |-> "windows", windows |-> windows, config |-> config,
                   raised |-> r.raised, out |-> r.out]
    /\ UNCHANGED << store, scanVars, envVars, huntVars, jobVars, reader, table, board >>

InitConfig ==
    /\ store = StoreInit
    /\ ScanInit
    /\ market = MarketQuiet
    /\ faulty = None
    /\ HuntInit
    /\ JobInit
    /\ SideInit

NextConfig ==
    \/ GetThresholdsCall
    \/ ResolveWindowsCall

SpecConfig == InitConfig /\ [][NextConfig]_vars

\* ------------------------------------------------------------- Pair.save

Owners == {"ana", "bia"}

\* An instrument id of a Pair instance; 0 stands for an id that is not set.
AssetIds == {0} \cup Assets

\* The swap that opens save: both ids set and asset_a_id > asset_b_id.
KeepOrder(a, b) == << a, b >>
Canonize(a, b) == IF a # 0 /\ b # 0 /\ a > b THEN << b, a >> ELSE << a, b >>

\* Pair.clean passes.
clean(inst) == inst.asset_a_id # inst.asset_b_id

\* full_clean passes: both foreign keys set, clean, and no other row with
\* the same owner, asset_a and asset_b.
full_clean(inst, others) ==
    /\ inst.asset_a_id # 0
    /\ inst.asset_b_id # 0
    /\ clean(inst)
    /\ inst \notin others

\* Pair.save of a new instance (old = None) or of a stored one whose fields
\* were set to owner, a, b.
PairSave ==
    /\ table.saves < MaxSaves
    /\ \E old \in Optional(table.rows), owner \in Owners, a \in AssetIds, b \in AssetIds :
          LET ids == Canonize(a, b)
              inst == [owner |-> owner, asset_a_id |-> ids[1], asset_b_id |-> ids[2]]
              others == IF IsNone(old) THEN table.rows ELSE table.rows \ {Val(old)}
              valid == full_clean(inst, others)
          IN  table' = [rows |-> IF valid THEN others \cup {inst} ELSE table.rows,
                        last |-> Some([owner |-> owner, a |-> a, b |-> b,
                                       result |-> IF valid THEN "saved"
                                                  ELSE "ValidationError"]),
                        saves |-> table.saves + 1]
    /\ UNCHANGED << store, scanVars, envVars, huntVars, jobVars, reader, conf, board >>

InitPair ==
    /\ store = StoreInit
    /\ ScanInit
    /\ market = MarketQuiet
    /\ faulty = None
    /\ HuntInit
    /\ JobInit
    /\ SideInit

NextPair == PairSave

SpecPair == InitPair /\ [][NextPair]_vars

\* ---------------------------------------------------------- specification

Init ==
    /\ store = StoreInit
    /\ ScanInit
    /\ market \in [ComboSet -> ProfileNames]
    /\ faulty \in Faults
    /\ HuntInit
    /\ JobInit
    /\ SideInit

Next ==
    \/ HuntCall
    \/ HuntAssetsWindow
    \/ BuildLookup
    \/ BuildEvaluate
    \/ BuildReturn
    \/ HuntExistingWindow
    \/ HuntExistingPair
    \/ HuntExistingWindowEnd
    \/ HuntExhausted
    \/ HuntStart
    \/ RunnerRun
    \/ HuntDecision

Spec == Init /\ [][Next]_vars

\* ------------------------------------------------- properties of the scanner

RowIdx == 1..Len(scan.rows)

\* The requirements of an approval, read off the values an evaluation shows:
\* sample count, stationarity percentage, z-score and half-life.
Approvable(samples, adf_pct, zscore, half_life, th) ==
    /\ ~IsNone(samples) /\ Val(samples) >= MIN_SAMPLES
    /\ ~IsNone(adf_pct) /\ Val(adf_pct) >= th.adf_min
    /\ ~IsNone(zscore) /\ Abs(Val(zscore)) >= th.zscore_abs_min
    /\ ~IsNone(th.half_life_max) =>
          (~IsNone(half_life) /\ Val(half_life) <= Val(th.half_life_max))

MissingInput(adf_pct, zscore, half_life, th) ==
    \/ IsNone(adf_pct)
    \/ IsNone(zscore)
    \/ (~IsNone(th.half_life_max) /\ IsNone(half_life))

SamplesOf(obs) == IF IsNone(obs.metrics) THEN None ELSE Get(Val(obs.metrics), "n_samples")

\* C7 (scanner rows): an "ok" row passed every check, and a row whose metrics
\* miss the stationarity value, the z-score or a required half-life is
\* "reprovado".
C7_Rows ==
    \A i \in RowIdx :
       LET r == scan.rows[i] IN
       /\ r.status = "ok" =>
            Approvable(SamplesOf(scan.seen[i]), r.adf_pct, r.zscore, r.half_life, scan.th)
       /\ (~IsNone(scan.seen[i].metrics)
             /\ MissingInput(r.adf_pct, r.zscore, r.half_life, scan.th))
            => r.status = "reprovado"

\* C7 (single evaluation): an approval passed every check, and an evaluation
\* whose metrics miss an input is rejected.
C7_Base ==
    base.pc = "done" =>
       LET out == Val(base.out)
           m == IF IsNone(Val(base.seen).metrics) THEN << >> ELSE Val(Val(base.seen).metrics)
       IN  /\ out.approved =>
                /\ out.payload.status = "ok"
                /\ Approvable(out.payload.n_samples, out.payload.adf_pct,
                              out.payload.zscore, out.payload.half_life, base.th)
                /\ out.payload.n_samples = Get(m, "n_samples")
                /\ out.payload.adf_pct = AdfPct(Get(m, "adf_pvalue"))
                /\ out.payload.zscore = Get(m, "zscore")
                /\ out.payload.half_life = Get(m, "half_life")
           /\ MissingInput(AdfPct(Get(m, "adf_pvalue")), Get(m, "zscore"),
                           Get(m, "half_life"), base.th)
                => ~out.approved

\* C7: status "ok" (approved) implies that the sample count is at least 60
\* and that stationarity, |z| and, when configured, half-life are present and
\* within the thresholds; a missing input gives "reprovado", never "ok".
C7_OkImpliesChecksPassed == C7_Rows /\ C7_Base

\* C7 witness: an approval under a configured half-life ceiling.
C7_Witness ==
    /\ base.pc = "done"
    /\ Val(base.out).approved
    /\ ~IsNone(base.th.half_life_max)

\* C8: in scan_pair_windows every window whose metrics pass all checks has
\* status "ok" and a best row is chosen, with half_life_max None or positive.
C8_PassingRowIsOk ==
    /\ \A i \in RowIdx :
          LET r == scan.rows[i] IN
          Approvable(SamplesOf(scan.seen[i]), r.adf_pct, r.zscore, r.half_life, scan.th)
             => r.status = "ok"
    /\ scan.pc = "done" =>
          ((\E i \in RowIdx :
              Approvable(SamplesOf(scan.seen[i]), scan.rows[i].adf_pct, scan.rows[i].zscore,
                         scan.rows[i].half_life, scan.th))
            => ~IsNone(scan.best))

\* C9: with fewer than 60 aligned rows the metrics record carries n_samples
\* only, and the scanner row and the single evaluation are rejected with the
\* sample-size message, whatever the thresholds.
C9_ShortSeriesRejected ==
    /\ \A i \in RowIdx :
          LET obs == scan.seen[i] IN
          (~obs.q.fail /\ Min(obs.q.avail, scan.rows[i].window) < MIN_SAMPLES) =>
             /\ DOMAIN Val(obs.metrics) = {"n_samples"}
             /\ Val(obs.metrics).n_samples = Some(Min(obs.q.avail, scan.rows[i].window))
             /\ scan.rows[i].status = "reprovado"
             /\ scan.rows[i].message.text = "Amostra insuficiente (N<60)"
    /\ base.pc = "done" =>
          LET obs == Val(base.seen) IN
          (~obs.q.fail /\ Min(obs.q.avail, base.window) < MIN_SAMPLES) =>
             /\ DOMAIN Val(obs.metrics) = {"n_samples"}
             /\ ~Val(base.out).approved
             /\ Val(base.out).message.text = "Amostra insuficiente (N<60)"

\* C9 witness: a finished scan with a row of 59 aligned observations, under
\* thresholds the series would otherwise pass.
C9_Witness ==
    /\ scan.pc = "done"
    /\ \E i \in RowIdx :
          /\ ~scan.seen[i].q.fail
          /\ scan.seen[i].q.avail = MIN_SAMPLES - 1
          /\ scan.seen[i].q.adf_pvalue = Some(1)
          /\ scan.seen[i].q.zscore = Some(-3)
          /\ scan.rows[i].status = "reprovado"

\* The priority order of the best-window choice: r before s.
Better(r, s) ==
    \/ Val(r.adf_pct) > Val(s.adf_pct)
    \/ /\ Val(r.adf_pct) = Val(s.adf_pct)
       /\ Abs(Val(r.zscore)) > Abs(Val(s.zscore))
    \/ /\ Val(r.adf_pct) = Val(s.adf_pct)
       /\ Abs(Val(r.zscore)) = Abs(Val(s.zscore))
       /\ Abs(Val(r.beta)) < Abs(Val(s.beta))

KeysEqual(r, s) ==
    /\ Val(r.adf_pct) = Val(s.adf_pct)
    /\ Abs(Val(r.zscore)) = Abs(Val(s.zscore))
    /\ Abs(Val(r.beta)) = Abs(Val(s.beta))

\* The loop's best over rows taken in the order perm.
RECURSIVE BestInOrder(_, _, _)
BestInOrder(rows, perm, k) ==
    IF k = 0 THEN None ELSE BestAfter(BestInOrder(rows, perm, k - 1), rows[perm[k]])

Perms(n) == { f \in [1..n -> 1..n] : \A i, j \in 1..n : i # j => f[i] # f[j] }

\* C10: the best row is an "ok" row that no other "ok" row precedes in the
\* order (stationarity, |z|, smaller |beta|); unless two "ok" rows agree on
\* all three keys, every order of the windows gives the same best row.
C10_BestIsMaximal ==
    scan.pc = "done" =>
       LET ok == { i \in RowIdx : scan.rows[i].status = "ok" }
           n == Len(scan.rows)
       IN  /\ ok = {} => IsNone(scan.best)
           /\ ok # {} =>
                /\ ~IsNone(scan.best)
                /\ \E i \in ok : scan.rows[i] = Val(scan.best)
                /\ \A j \in ok : ~Better(scan.rows[j], Val(scan.best))
           /\ (\A i, j \in ok : i # j => ~KeysEqual(scan.rows[i], scan.rows[j])) =>
                \A perm \in Perms(n) : BestInOrder(scan.rows, perm, n) = scan.best

\* C10 witness: three "ok" rows, the first two level on stationarity and |z|,
\* the best one decided by the smaller |beta| and met last.
C10_Witness ==
    /\ scan.pc = "done"
    /\ Len(scan.rows) = 3
    /\ \A i \in RowIdx : scan.rows[i].status = "ok"
    /\ Val(scan.rows[1].adf_pct) < Val(scan.rows[2].adf_pct)
    /\ Val(scan.rows[2].adf_pct) = Val(scan.rows[3].adf_pct)
    /\ Abs(Val(scan.rows[2].zscore)) = Abs(Val(scan.rows[3].zscore))
    /\ Abs(Val(scan.rows[3].beta)) < Abs(Val(scan.rows[2].beta))
    /\ scan.best = Some(scan.rows[3])

\* Thresholds an evaluation is repeated under.
ThresholdGrid ==
    { Thresholds(a, z, h) :
        a \in {85, 90, DEFAULT_ADF_MIN}, z \in {1, 2, 3},
        h \in {None, Some(DEFAULT_HALF_LIFE_MAX), Some(8)} }

\* t is no stricter than th; no ceiling (None) is the loosest half-life.
Looser(t, th) ==
    /\ t.adf_min <= th.adf_min
    /\ t.zscore_abs_min <= th.zscore_abs_min
    /\ \/ IsNone(t.half_life_max)
       \/ /\ ~IsNone(th.half_life_max)
          /\ Val(t.half_life_max) >= Val(th.half_life_max)

\* C11: a row that is "ok", and a single evaluation that is approved, under
\* the thresholds of the call is "ok" (approved) for the same series under
\* every looser thresholds.
C11_ApprovalMonotone ==
    /\ \A i \in RowIdx :
          scan.rows[i].status = "ok" =>
             \A t \in ThresholdGrid :
                Looser(t, scan.th) =>
                   ScanRow(scan.rows[i].window, scan.seen[i].q, t).status = "ok"
    /\ (base.pc = "done" /\ Val(base.out).approved) =>
          \A t \in ThresholdGrid :
             Looser(t, base.th) =>
                compute_base_for_pair(Val(base.seen).q, base.window, t).approved

\* C11 witness: an approval under a half-life ceiling of 5 and a |z| floor of
\* 3, of a series that looser thresholds of the grid are tried on.
C11_Witness ==
    /\ base.pc = "done"
    /\ Val(base.out).approved
    /\ base.th = Thresholds(DEFAULT_ADF_MIN, 3, Some(DEFAULT_HALF_LIFE_MAX))
    /\ Val(base.seen).q.adf_pvalue = Some(5)

\* What a reader of the pair's scan_cache finds under "scan".
ReadScan == store[ThePair].scan_cache_json["scan"]

\* C13: after scan_pair_windows returns, the "scan" entry read back has the
\* window of the returned best row as best_window (None without a best row)
\* and as many rows as were returned, one per resolved window, in order.
C13_ScanRoundTrip ==
    scan.pc = "done" =>
       LET result == Val(scan.result) IN
       /\ "scan" \in DOMAIN store[ThePair].scan_cache_json
       /\ ReadScan.best_window =
             (IF IsNone(result.best) THEN None ELSE Some(Val(result.best).window))
       /\ Len(ReadScan.rows) = Len(result.rows)
       /\ Len(ReadScan.rows) = Len(result.windows)
       /\ \A i \in 1..Len(ReadScan.rows) :
             /\ ReadScan.rows[i].window = result.windows[i]
             /\ ReadScan.rows[i].window = result.rows[i].window
             /\ ReadScan.rows[i].status = result.rows[i].status

\* C13 witness: a scan of three windows has returned with a best row that is
\* not the first, among rows that are not all "ok".
C13_Witness ==
    /\ scan.pc = "done"
    /\ Len(Val(scan.result).rows) = 3
    /\ ~IsNone(Val(scan.result).best)
    /\ Val(Val(scan.result).best).window = Val(scan.result).windows[3]
    /\ Val(scan.result).rows[1].status = "reprovado"
    /\ ReadScan.best_window = Some(Val(scan.result).windows[3])

\* ---------------------------------------------------- properties of the hunt

\* The pairs of keys (in order) that the environment lets a window approve:
\* the series passes the thresholds and the record can be written.
RECURSIVE ApprovedAmong(_, _, _)
ApprovedAmong(keys, window, th) ==
    IF keys = << >> THEN << >>
    ELSE LET c == Head(keys)
             rest == ApprovedAmong(Tail(keys), window, th)
         IN  IF compute_base_for_pair(QuoteOf(market[c], window), window, th).approved
                /\ ~WriteRaises(c)
             THEN << c >> \o rest
             ELSE rest

\* The pairs a hunt evaluates: every combination, or the known pairs.
HuntKeys == IF hunt.source = "assets" THEN Combos ELSE SortedKeys(DOMAIN StoreInit)

HuntReturned == hunt.pc = "returned" /\ hunt.source \in ValidSources

\* C1: a hunt returns found=True at the first window of its sequence that
\* approves a pair: window is that window, approved_ids the pairs approved
\* there, scanned_windows the sequence up to and including it, and no pair
\* carries an evaluation of a later window.
C1_StopsAtFirstApproval ==
    (HuntReturned /\ Val(hunt.result).found) =>
       LET r == Val(hunt.result) IN
       \E k \in 1..Len(hunt.seq) :
          /\ r.window = Some(hunt.seq[k])
          /\ r.scanned_windows = SubSeq(hunt.seq, 1, k)
          /\ r.approved_ids = ApprovedAmong(HuntKeys, hunt.seq[k], hunt.th)
          /\ r.approved_ids # << >>
          /\ \A j \in 1..(k - 1) : ApprovedAmong(HuntKeys, hunt.seq[j], hunt.th) = << >>
          /\ \A c \in DOMAIN store :
                "base" \in DOMAIN store[c].scan_cache_json =>
                   \E j \in 1..k : store[c].scan_cache_json["base"].window = hunt.seq[j]

\* C1 witness: windows [180, 160, 140], only 140 approves.
C1_Witness ==
    /\ HuntReturned
    /\ Val(hunt.result).found
    /\ Val(hunt.result).window = Some(140)
    /\ Val(hunt.result).scanned_windows = << 180, 160, 140 >>

\* C2: without a gate the loop goes from one window to the next by itself,
\* and when no window approves a pair the hunt returns found=False, no
\* window, no ids, the whole sequence as scanned_windows and every error
\* string raised on the way.
C2_ExhaustsAllWindows ==
    /\ (hunt.pc = "window" /\ hunt.wi <= Len(hunt.seq)) =>
          ENABLED (HuntAssetsWindow \/ HuntExistingWindow)
    /\ (hunt.pc = "window" /\ hunt.wi > Len(hunt.seq)) => ENABLED HuntExhausted
    /\ HuntReturned =>
          ((\A k \in 1..Len(hunt.seq) : ApprovedAmong(HuntKeys, hunt.seq[k], hunt.th) = << >>)
             => Val(hunt.result) = HuntResult(FALSE, None, << >>, raised, hunt.seq))
    /\ (HuntReturned /\ ~Val(hunt.result).found) =>
          Val(hunt.result) = HuntResult(FALSE, None, << >>, raised, hunt.seq)

\* C2 witness: a not-found result with errors from more than one window.
C2_Witness ==
    /\ HuntReturned
    /\ ~Val(hunt.result).found
    /\ Len(Val(hunt.result).scanned_windows) = Len(hunt.seq)
    /\ Len(Val(hunt.result).errors) >= 2

JobFinished == job.pc = "finished"
JobStatus == Val(cache.status)

CountOf(seq, x) == Cardinality({ i \in 1..Len(seq) : seq[i] = x })

\* C3: a gated hunt that "cancel" stops ends with a result: found=False and
\* the windows evaluated so far; a not-found result that stops short of the
\* whole sequence is one that "cancel" ended.
C3_CancelGivesNotFound ==
    (JobFinished /\ "cancel" \in Range(job.written)) =>
       /\ JobStatus.state = "done"
       /\ LET r == JobStatus.result IN
          ~r.found =>
             /\ r.window = None
             /\ \E k \in 1..Len(JobWindows) : r.scanned_windows = SubSeq(JobWindows, 1, k)
             /\ Len(r.scanned_windows) < Len(JobWindows) => "cancel" \in Range(job.written)

\* C4: a gated hunt evaluates a further window only after a "continue": its
\* result lists at most one window more than "continue" decisions written.
C4_NextWindowNeedsContinue ==
    JobFinished =>
       /\ JobStatus.state = "done"
       /\ Len(JobStatus.result.scanned_windows) <= 1 + CountOf(job.written, "continue")

\* C6: the worker of hunt_start always finishes with the record
\* {state: "done", result}; a failure shows only as found=False with errors.
C6_JobEndsDone ==
    JobFinished =>
       /\ JobStatus.state = "done"
       /\ "result" \in DOMAIN JobStatus
       /\ "error" \notin DOMAIN JobStatus

\* ---------------------------------------------------- properties of the gate

Waited == 1..Len(gate.acted)

\* Each decision is acted on by at most one wait.
ActedOnce == \A i, j \in Waited : i # j => gate.acted[i] # gate.acted[j]

\* No wait acts on a decision written before the wait began.
NoStaleDecision == \A i \in Waited : job.epoch[gate.acted[i]] >= i

\* The wait returns what the decision it read says.
ActsOnDecisionRead ==
    \A i \in Waited : gate.returned[i] = (job.written[gate.acted[i]] = "continue")

Written(a, b) == { k \in DOMAIN b : k \notin DOMAIN a \/ a[k] # b[k] }

\* build_pairs_base has returned to the hunt.
BuildReturned == build.pc = "idle" /\ build.window # 0

\* The combinations approved by the call that had no record before it.
ApprovedUnknown == { c \in Range(build.approved_ids) : c \notin build.known }

\* C14: when build_pairs_base has returned, the records that were not there
\* before the call are exactly those of the approved unknown combinations,
\* and "created" is their number: no rejected unknown combination keeps a
\* record.
C14_NoOrphanCandidates ==
    BuildReturned =>
       /\ DOMAIN store \ build.known = ApprovedUnknown
       /\ build.created = Cardinality(ApprovedUnknown)

\* C15: a failure at any step of one combination never aborts the scan: no
\* exception leaves build_pairs_base, and when it has returned the failed
\* combination has one string in errors and no record created by the call.
C15_FailureNeverAborts ==
    /\ build.pc # "raised"
    /\ hunt.pc # "raised"
    /\ BuildReturned =>
          \A c \in ComboSet :
             FaultAt(c) # "none" =>
                /\ CountOf(build.errors, ErrorString(c)) = 1
                /\ c \notin build.known => c \notin DOMAIN store

\* C16: no concurrent reader sees a record that was created for evaluation
\* and is deleted on rejection: every record a reader has seen is still
\* there.
C16_NoHalfCreatedSeen == reader \subseteq DOMAIN store

\* C17: no step of a hunt over the existing pairs creates or deletes a
\* record, or changes anything of a record but the "base" entry of its
\* scan_cache.
C17_ExistingPairsKeepsRecords ==
    [][ (hunt.source = "existing_pairs" /\ hunt.pc \in {"window", "pairs"}) =>
          /\ DOMAIN store' = DOMAIN store
          /\ \A c \in DOMAIN store :
                Written(store[c].scan_cache_json, store'[c].scan_cache_json) \subseteq {"base"}
          /\ \A c \in DOMAIN store :
                DOMAIN store[c].scan_cache_json \subseteq DOMAIN store'[c].scan_cache_json ]_vars

\* C17 witness: a hunt over the existing pairs has returned after two
\* windows with an approval, the stored pair carrying an earlier "scan".
C17_Witness ==
    /\ hunt.source = "existing_pairs"
    /\ hunt.pc = "returned"
    /\ Val(hunt.result).found
    /\ Len(Val(hunt.result).scanned_windows) >= 2
    /\ DOMAIN store[ThePair].scan_cache_json = {"base", "scan"}
    /\ DOMAIN store # DOMAIN StoreInit

\* ------------------------------------------------ properties of scan_cache

\* C12: a step that writes one key of a pair's scan_cache leaves the other
\* key as it was; a key once written stays, and a record that goes had no
\* key written.
C12_CacheKeysKept ==
    [][ \A c \in DOMAIN store :
          LET old == store[c].scan_cache_json IN
          IF c \in DOMAIN store'
          THEN /\ DOMAIN old \subseteq DOMAIN store'[c].scan_cache_json
               /\ Cardinality(Written(old, store'[c].scan_cache_json)) <= 1
          ELSE old = << >> ]_vars

\* C12 witness: the stored pair carries "scan" and "base" after a scan and a
\* hunt that saved a rejection over an earlier approval's window.
C12_Witness ==
    /\ ThePair \in DOMAIN store
    /\ DOMAIN store[ThePair].scan_cache_json = {"base", "scan"}
    /\ hunt.pc = "returned"
    /\ scan.pc = "done"
    /\ store[ThePair].scan_cache_json["base"].status = "reprovado"
    /\ store[ThePair].scan_cache_json["scan"].best_window # None


\* ---------------------------------------------- properties of configuration

DefaultValue == [kind |-> "default", v |-> 0]

\* The value of the highest-precedence source that gives the key a number
\* (override, then configuration, then setting), or DefaultValue.
NumberSupplied(key) ==
    LET gives(d) == ~IsNone(d) /\ key \in DOMAIN Val(d) /\ Val(d)[key].kind = "int" IN
    IF gives(conf.overrides) THEN Val(conf.overrides)[key]
    ELSE IF gives(conf.config) THEN Val(conf.config)[key]
    ELSE IF gives(conf.cfg) THEN Val(conf.cfg)[key]
    ELSE DefaultValue

\* The value of the highest-precedence source that supplies the key, None
\* included.
Supplied(key) ==
    LET gives(d) == ~IsNone(d) /\ key \in DOMAIN Val(d) IN
    IF gives(conf.overrides) THEN Val(conf.overrides)[key]
    ELSE IF gives(conf.config) THEN Val(conf.config)[key]
    ELSE IF gives(conf.cfg) THEN Val(conf.cfg)[key]
    ELSE DefaultValue

\* C18: each threshold comes from the highest-precedence source that
\* supplies it (default < setting < configuration < override), and a
\* half_life_max of None from that source gives no half-life ceiling.
C18_ThresholdPrecedence ==
    conf.pc = "thresholds" =>
       /\ conf.out.adf_min =
             (IF NumberSupplied("adf_min").kind = "int"
              THEN NumberSupplied("adf_min").v ELSE DEFAULT_ADF_MIN)
       /\ conf.out.zscore_abs_min =
             (IF NumberSupplied("zscore_abs_min").kind = "int"
              THEN NumberSupplied("zscore_abs_min").v ELSE DEFAULT_ZSCORE_ABS_MIN)
       /\ LET h == Supplied("half_life_max") IN
          /\ h.kind = "none" => conf.out.half_life_max = None
          /\ h.kind = "int" =>
                conf.out.half_life_max = (IF h.v > 0 THEN Some(h.v) ELSE None)
          /\ h.kind = "default" => conf.out.half_life_max = Some(DEFAULT_HALF_LIFE_MAX)

\* The entries of a list that are positive integers, first occurrences only,
\* in order.
RECURSIVE ValidWindows(_, _)
ValidWindows(source, kept) ==
    IF source = << >> THEN kept
    ELSE LET e == Head(source) IN
         IF e.kind = "int" /\ e.v > 0 /\ e.v \notin Range(kept)
         THEN ValidWindows(Tail(source), Append(kept, e.v))
         ELSE ValidWindows(Tail(source), kept)

\* C19: the resolved window list is never empty and holds positive integers
\* without duplicates: the non-positive and the non-integer entries of the
\* source are dropped, the rest keeps its order, and the defaults stand in
\* when nothing is left; no exception is raised.
C19_WindowsResolved ==
    conf.pc = "windows" =>
       LET source == IF ~IsNone(conf.windows) THEN Val(conf.windows)
                     ELSE IF ~IsNone(conf.config) THEN Val(conf.config)
                     ELSE Tagged(DEFAULT_WINDOWS)
           valid == ValidWindows(source, << >>)
       IN  /\ ~conf.raised
           /\ conf.out # << >>
           /\ \A i \in 1..Len(conf.out) : conf.out[i] > 0
           /\ \A i, j \in 1..Len(conf.out) : i # j => conf.out[i] # conf.out[j]
           /\ conf.out = (IF valid = << >> THEN DEFAULT_WINDOWS ELSE valid)


\* --------------------------------------------------- properties of Pair.save

\* C20: after every Pair.save, every stored record has two set ids with
\* asset_a_id < asset_b_id, no two records of one owner hold the same two
\* instruments, and a save with equal ids ends in a validation error and
\* leaves the stored records as they were.
C20_PairsCanonical ==
    [][ /\ \A r \in table'.rows : r.asset_a_id # 0 /\ r.asset_a_id < r.asset_b_id
        /\ \A r1, r2 \in table'.rows :
              (/\ r1.owner = r2.owner
               /\ {r1.asset_a_id, r1.asset_b_id} = {r2.asset_a_id, r2.asset_b_id})
              => r1 = r2
        /\ (table'.saves # table.saves /\ Val(table'.last).a = Val(table'.last).b)
              => /\ Val(table'.last).result = "ValidationError"
                 /\ table'.rows = table.rows ]_vars

\* C20 witness: (B,A) was saved after (A,B) for one owner and one canonical
\* record is stored.
C20_Witness ==
    /\ table.saves = 2
    /\ ~IsNone(table.last)
    /\ Val(table.last).a > Val(table.last).b
    /\ Val(table.last).b # 0
    /\ Val(table.last).result = "ValidationError"
    /\ table.rows = { [owner |-> Val(table.last).owner,
                       asset_a_id |-> Val(table.last).b,
                       asset_b_id |-> Val(table.last).a] }


\* ------------------------------------------- properties of one evaluation

\* The text of the first check that fails, in the order sample-size floor,
\* stationarity floor, |z| floor, half-life ceiling; "" when none fails.
FirstFailure(samples, adf_pct, zscore, half_life, th) ==
    IF ~IsNone(samples) /\ Val(samples) < MIN_SAMPLES THEN "Amostra insuficiente (N<60)"
    ELSE IF IsNone(adf_pct) THEN "ADF% indisponivel"
    ELSE IF Val(adf_pct) < th.adf_min THEN "ADF < minimo"
    ELSE IF IsNone(zscore) THEN "Z-score indisponivel"
    ELSE IF Abs(Val(zscore)) < th.zscore_abs_min THEN "|Z| <"
    ELSE IF IsNone(th.half_life_max) THEN ""
    ELSE IF IsNone(half_life) THEN "Half-life indisponivel"
    ELSE IF Val(half_life) > Val(th.half_life_max) THEN "Half-life > maximo"
    ELSE ""

FirstFailureOf(obs, th) ==
    LET m == Val(obs.metrics) IN
    FirstFailure(Get(m, "n_samples"), AdfPct(Get(m, "adf_pvalue")), Get(m, "zscore"),
                 Get(m, "half_life"), th)

\* C23: a rejected evaluation carries the message of the first check that
\* fails in the order sample-size floor, stationarity floor, |z| floor,
\* half-life ceiling, in the scanner row and in the single evaluation alike,
\* and both give the same message for the same metrics and thresholds.
C23_FirstFailureNamed ==
    /\ \A i \in RowIdx :
          LET obs == scan.seen[i]
              single == compute_base_for_pair(obs.q, scan.rows[i].window, scan.th)
          IN  /\ (~obs.q.fail /\ FirstFailureOf(obs, scan.th) # "") =>
                    /\ scan.rows[i].status = "reprovado"
                    /\ scan.rows[i].message.text = FirstFailureOf(obs, scan.th)
              /\ scan.rows[i].message = single.message
    /\ base.pc = "done" =>
          LET obs == Val(base.seen) IN
          (~obs.q.fail /\ FirstFailureOf(obs, base.th) # "") =>
             /\ ~Val(base.out).approved
             /\ Val(base.out).message.text = FirstFailureOf(obs, base.th)

\* C27: for the same metrics and thresholds the single evaluation approves
\* exactly when the scanner gives the window the status "ok".
C27_SameDecision ==
    \A i \in RowIdx :
       (scan.rows[i].status = "ok")
          <=> compute_base_for_pair(scan.seen[i].q, scan.rows[i].window, scan.th).approved

\* C24: a window whose computation raises gets an "erro" row with the
\* exception text; the scan has one row per resolved window in list order,
\* the other rows are what their own series give, and best is never an
\* "erro" row.
C24_ErrorRowNeverAborts ==
    /\ scan.pc = "loop" => Len(scan.rows) = scan.i - 1
    /\ scan.pc = "done" => Len(scan.rows) = Len(scan.windows)
    /\ \A i \in RowIdx :
          LET obs == scan.seen[i] IN
          /\ scan.rows[i].window = scan.windows[i]
          /\ obs.q.fail =>
                /\ scan.rows[i].status = "erro"
                /\ scan.rows[i].message.text = "erro"
          /\ ~obs.q.fail =>
                LET c == RowCheck(Val(obs.metrics), scan.th) IN
                /\ scan.rows[i].status = c.status
                /\ scan.rows[i].message = c.message
                /\ scan.rows[i].status # "erro"
    /\ ~IsNone(scan.best) =>
          \E i \in RowIdx : scan.rows[i] = Val(scan.best) /\ scan.rows[i].status = "ok"

\* C24 witness: a finished scan whose first window raised and whose later
\* window is "ok" and is the best row.
C24_Witness ==
    /\ scan.pc = "done"
    /\ Len(scan.rows) >= 2
    /\ scan.seen[1].q.fail
    /\ scan.rows[1].status = "erro"
    /\ scan.rows[2].status = "ok"
    /\ scan.best = Some(scan.rows[2])

\* C26: in scanned_windows every window is strictly smaller than the one
\* before it, whatever the order of the list the hunt is given.
C26_ScannedDescending ==
    \A i \in 1..(Len(hunt.scanned) - 1) : hunt.scanned[i] > hunt.scanned[i + 1]


\* ------------------------------------------- properties of build_pairs_base

\* The combinations the running (or last) call of build_pairs_base is done
\* with.
Evaluated(c) == \E i \in 1..Len(Combos) : i < build.ci /\ Combos[i] = c

CountIn(seq, S) == Cardinality({ i \in 1..Len(seq) : seq[i] \in S })

C29_NeitherWriteLost ==
    (/\ scan.pc = "done"
     /\ hunt.pc = "returned"
     /\ hunt.source \in ValidSources
     /\ hunt.scanned # << >>)
    => /\ {"scan", "base"} \subseteq DOMAIN store[ThePair].scan_cache_json
       /\ store[ThePair].scan_cache_json["scan"] = scan.sc["scan"]
       /\ store[ThePair].scan_cache_json["base"].window = hunt.scanned[Len(hunt.scanned)]


\* --------------------------------------------------- properties of the wait

\* The wait number w has published "waiting" and a decision is in the key.
DecisionPending(w) == gate.waits = w /\ gate.pc = "poll" /\ ~IsNone(cache.decision)

\* C30: a decision that is in the key once the wait has published "waiting"
\* ends the wait: the poll that follows reads it, it is the latest decision
\* written, and the wait returns True for "continue" and False for "cancel".
C30_WaitEndsOnDecision ==
    /\ \A w \in 1..(MaxWaits + 1) : DecisionPending(w) ~> (Len(gate.returned) >= w)
    /\ [][ /\ (\E w \in 1..(MaxWaits + 1) : DecisionPending(w)) /\ gate' # gate
               => /\ gate'.pc = "consume"
                  /\ gate'.choice = cache.decision
                  /\ gate'.read = Len(job.written)
           /\ Len(gate'.returned) > Len(gate.returned)
               => gate'.returned[Len(gate'.returned)]
                    = (job.written[gate.read] = "continue") ]_vars

\* C30 witness: a wait returned False on a "cancel" that was written after a
\* "continue" of the same wait, the later one deciding.
C30_Witness ==
    /\ Len(gate.returned) >= 1
    /\ gate.returned[1] = FALSE
    /\ gate.acted[1] = 2
    /\ job.written[1] = "continue"
    /\ job.written[2] = "cancel"
    /\ job.epoch[1] = 1


\* ------------------------------------------------ properties of hunt_status

\* The record the worker published last, by the worker's position.
LastPublished ==
    CASE job.pc = "spawned" -> [state |-> "starting"]
      [] job.pc = "finished" -> Val(cache.status)
      [] OTHER -> [state |-> "unknown"]

\* C21: a status query answers with the record published last, and with
\* {state: "unknown"} exactly when no record was published or the last one
\* was published CACHE_TTL or longer ago.
C21_StatusIsLatestOrUnknown ==
    [][ board'.answer # board.answer =>
          LET data == Val(board'.answer).view.data
              gone == job.pc = "none" \/ cache.status_at + CACHE_TTL <= board.now
          IN  /\ gone => data = [state |-> "unknown"]
              /\ ~gone => data = LastPublished /\ data.state # "unknown"
              /\ (~gone /\ job.pc = "finished") => data.state \in {"done", "error"} ]_vars

\* C21 witness: a query made once the final record of a finished job has
\* passed its time-to-live is answered "unknown".
C21_Witness ==
    /\ job.pc = "finished"
    /\ ~IsNone(board.answer)
    /\ Val(board.answer).view.data = [state |-> "unknown"]
    /\ Val(board.answer).at >= cache.status_at + CACHE_TTL
    /\ cache.status_at > cache.log_at


\* ------------------------------------------------ properties of the job log

\* The events that report the evaluation of one pair.
PerPairEvents ==
    SelectSeq(board.emitted,
              LAMBDA ev : "phase" \in DOMAIN ev /\ ev["phase"] \in {"iter", "pair"})

\* C22: the log of a hunt job holds the most recent min(k, LOG_CAP) per-pair
\* events in emission order, k being the number of pairs the hunt reported,
\* and never more than LOG_CAP entries.
C22_LogHoldsRecentPairEvents ==
    job.pc = "spawned" =>
       LET k == Len(PerPairEvents)
           rows == Val(cache.log)
       IN  /\ Len(rows) <= LOG_CAP
           /\ Len(rows) = Min(k, LOG_CAP)
           /\ \A j \in 1..Len(rows) :
                 rows[j] = LogRow(PerPairEvents[k - Len(rows) + j])

\* The record of the job is a final one.
TerminalRecord == ~IsNone(cache.status) /\ Val(cache.status).state \in {"done", "error"}

\* C28: every started refresh or hunt job whose worker is not held at a
\* gate comes to publish exactly one final record, of state "done" or
\* "error", and after it the worker publishes nothing more.
C28_JobEndsWithFinalRecord ==
    /\ (job.pc \in {"spawned", "refresh_spawned"}) ~> (job.pc = "finished" /\ TerminalRecord)
    /\ [][ TerminalRecord => cache' = cache ]_vars
    /\ [][ (~TerminalRecord /\ TerminalRecord') => job'.pc = "finished" ]_vars

\* C28 witness: a refresh job has reported progress on every combination and
\* has published its "done" record with an approval and an error counted.
C28_Witness ==
    /\ job.pc = "finished"
    /\ TerminalRecord
    /\ Val(cache.status).state = "done"
    /\ Val(cache.status).ok >= 1
    /\ Val(cache.status).errs >= 1

====
